---- MODULE Spec2Model ----
(***************************************************************************)
(* Channel grouping and saved-pattern service of the Slack channel regex   *)
(* bot: ChannelGrouperService (src/src/services/channelGrouper.js), its    *)
(* serverless twin (src/lib/channelGrouper.js) and listChannelsMatching    *)
(* (src/src/index.js).                                                     *)
(*                                                                         *)
(* Strings are sequences of one-character strings, so that the host        *)
(* regular-expression evaluator (RegExp.prototype.test, with its lastIndex *)
(* state) is computed rather than assumed.                                 *)
(***************************************************************************)
EXTENDS Integers, Sequences, FiniteSets, TLC

\* ------------------------------------------------------------------ bounds
\* Longest upstream channel listing explored.
MaxChannels == 4
\* Channels the upstream hands out per conversations.list page.
PageSize == 3
\* Latest clock value explored (new Date()).
MaxClock == 1

\* ------------------------------------------------------------ basic values
\* JavaScript undefined (an omitted argument, a missing property).
Undef == <<"undefined">>
\* No compiled RegExp / no MatchResult / no thrown Error.
NoRegex == [ok |-> FALSE]
NoResult == [none |-> TRUE]
NoError == <<>>

Min(a, b) == IF a < b THEN a ELSE b

Range(s) == {s[i] : i \in 1..Len(s)}

\* ------------------------------------------------- host RegExp (as called)
\* Flag letters the RegExp constructor accepts.
FlagChars == {"d", "g", "i", "m", "s", "u", "v", "y"}

\* new RegExp(pattern, flags): the flags string is accepted when every letter
\* is a known flag and none is repeated.
ValidFlags(flags) ==
    /\ \A i \in 1..Len(flags) : flags[i] \in FlagChars
    /\ \A i, j \in 1..Len(flags) : i # j => flags[i] # flags[j]
    /\ ~("u" \in Range(flags) /\ "v" \in Range(flags))

\* Nesting depth of the groups opened in the first k characters of a pattern
\* (-1 once a ")" closes nothing).
RECURSIVE Depth(_, _)
Depth(pattern, k) ==
    IF k = 0 THEN 0
    ELSE LET d == Depth(pattern, k - 1) IN
         IF d < 0 THEN -1
         ELSE IF pattern[k] = "(" THEN d + 1
         ELSE IF pattern[k] = ")" THEN d - 1
         ELSE d

\* The pattern source is accepted when its groups balance.
ValidPattern(pattern) == Depth(pattern, Len(pattern)) = 0

\* The atoms of a pattern: its characters without the grouping parentheses
\* (a group around a concatenation matches what the concatenation matches).
Atoms(pattern) == SelectSeq(pattern, LAMBDA c : c \notin {"(", ")"})

\* Error messages of the host: a message is a sequence of fragments, and
\* message.includes(fragment) asks for one of them.
MsgInvalidFlags == <<"Invalid flags supplied to RegExp constructor">>
MsgInvalidRegExp == <<"Invalid regular expression", "Unterminated group">>

includes(message, fragment) == \E i \in 1..Len(message) : message[i] = fragment

\* new RegExp(pattern, flags): a RegExp object with lastIndex 0, or a thrown
\* SyntaxError. The flags are checked before the pattern is parsed.
NewRegExp(pattern, flags) ==
    IF ~ValidFlags(flags) THEN [ok |-> FALSE, message |-> MsgInvalidFlags]
    ELSE IF ~ValidPattern(pattern) THEN [ok |-> FALSE, message |-> MsgInvalidRegExp]
    ELSE [ok |-> TRUE,
          atoms |-> Atoms(pattern),
          global |-> "g" \in Range(flags),
          ignoreCase |-> "i" \in Range(flags),
          multiline |-> "m" \in Range(flags),
          sticky |-> "y" \in Range(flags)]

\* Case folding of the characters used.
Lower(c) ==
    CASE c = "D" -> "d"
      [] c = "E" -> "e"
      [] c = "V" -> "v"
      [] OTHER -> c

CharEq(re, a, c) == IF re.ignoreCase THEN Lower(a) = Lower(c) ELSE a = c

\* "^" holds at position i (0-based) of s.
AtLineStart(re, s, i) == i = 0 \/ (re.multiline /\ s[i] = "\n")

\* The atoms from the k-th on match s from position i: the end position of
\* the match, or -1.
RECURSIVE MatchAt(_, _, _, _)
MatchAt(re, s, i, k) ==
    IF k > Len(re.atoms) THEN i
    ELSE IF re.atoms[k] = "^"
         THEN IF AtLineStart(re, s, i) THEN MatchAt(re, s, i, k + 1) ELSE -1
    ELSE IF i < Len(s) /\ CharEq(re, re.atoms[k], s[i + 1])
         THEN MatchAt(re, s, i + 1, k + 1)
    ELSE -1

\* The end position of the first match of re in s that starts at position i
\* or later (only at i for a sticky RegExp), or -1.
RECURSIVE ExecFrom(_, _, _)
ExecFrom(re, s, i) ==
    IF i > Len(s) THEN -1
    ELSE LET e == MatchAt(re, s, i, 1) IN
         IF e >= 0 THEN e
         ELSE IF re.sticky THEN -1
         ELSE ExecFrom(re, s, i + 1)

\* regex.test(s) on a RegExp whose lastIndex is lastIndex: the verdict and the
\* lastIndex it leaves. A global or sticky RegExp starts at lastIndex and
\* remembers where the match ended; any other starts at 0 and keeps lastIndex.
RegExpTest(re, lastIndex, s) ==
    LET stateful == re.global \/ re.sticky
        start == IF stateful THEN lastIndex ELSE 0
        e == ExecFrom(re, s, start)
    IN  IF e >= 0
        THEN [result |-> TRUE, lastIndex |-> IF stateful THEN e ELSE lastIndex]
        ELSE [result |-> FALSE, lastIndex |-> IF stateful THEN 0 ELSE lastIndex]

\* A fresh RegExp (lastIndex 0) matches s.
Matches(re, s) == RegExpTest(re, 0, s).result

\* ------------------------------------------------------- upstream records
Str_devt == <<"d", "e", "v", "t">>
Str_mkt == <<"m", "k", "t">>
Str_devo == <<"d", "e", "v", "o">>
Str_ops == <<"o", "p", "s">>
Str_arc == <<"a", "r", "c">>
Str_Dev == <<"D", "e", "v">>

Absent == [defined |-> FALSE]
Field(s) == [defined |-> TRUE, value |-> s]

\* Raw conversations.list records: topic and purpose may be missing.
RawChannel(id, name, private, archived, topic, purpose) ==
    [id |-> id, name |-> name, is_private |-> private, is_archived |-> archived,
     topic |-> topic, purpose |-> purpose]

ChannelPool ==
    {RawChannel("C1", Str_devt, FALSE, FALSE, Absent, Absent),
     RawChannel("C2", Str_mkt, FALSE, FALSE, Field(<<>>), Absent),
     RawChannel("C3", Str_devo, FALSE, TRUE, Field(Str_arc), Absent),
     RawChannel("C4", Str_ops, TRUE, FALSE, Absent, Field(Str_Dev))}

\* The listings of a workspace: its channels in upstream order, each once.
Listings ==
    {l \in UNION {[1..n -> ChannelPool] : n \in 0..MaxChannels} :
        \A i, j \in 1..Len(l) : i # j => l[i].id # l[j].id}

\* The listing of the worked example: dev-team, marketing, dev-ops (archived).
ExampleListing ==
    <<RawChannel("C1", Str_devt, FALSE, FALSE, Absent, Absent),
      RawChannel("C2", Str_mkt, FALSE, FALSE, Field(<<>>), Absent),
      RawChannel("C3", Str_devo, FALSE, TRUE, Field(Str_arc), Absent)>>

\* slack.conversations.list({types, limit, cursor}) answered from a listing:
\* one page from the cursor on, and the cursor of the next page (0: none).
ConversationsList(listing, cursor) ==
    [kind |-> "page",
     channels |-> SubSeq(listing, cursor + 1, Min(cursor + PageSize, Len(listing))),
     next_cursor |-> IF cursor + PageSize < Len(listing) THEN cursor + PageSize ELSE 0]

\* The ways a request fails: the client rejects (network, auth, rate limit;
\* the text of the error is the upstream's, here one that happens to hold the
\* phrase the service looks for), or the response carries ok: false and no
\* channels.
Rejected == [kind |-> "reject", message |-> <<"Invalid regular expression", "rate_limited">>]
NotOk == [kind |-> "not_ok", message |-> <<"invalid_auth">>]
Failures == {Rejected, NotOk}

\* ------------------------------------------------ ChannelGrouperService
MsgFetchFailed == <<"Failed to fetch channels">>
MsgInvalidPattern == <<"Invalid regex pattern provided">>
MsgGroupFailed == <<"Failed to group channels">>
MsgGroupNotFound == <<"Group not found">>

\* channel.topic?.value || ''
OrEmpty(field) == IF field.defined THEN field.value ELSE <<>>

NormaliseChannel(ch) ==
    [id |-> ch.id, name |-> ch.name, is_private |-> ch.is_private,
     is_archived |-> ch.is_archived,
     topic |-> OrEmpty(ch.topic), purpose |-> OrEmpty(ch.purpose)]

\* (variant: the catch rethrows the upstream's own error)
getAllChannels_rethrow(reply) ==
    IF reply.kind = "page"
    THEN [ok |-> TRUE,
          channels |-> [i \in 1..Len(reply.channels) |-> NormaliseChannel(reply.channels[i])]]
    ELSE [ok |-> FALSE, message |-> reply.message]

\* getAllChannels on the reply to its one request: the channels of that reply,
\* or the thrown 'Failed to fetch channels'.
getAllChannels(reply) ==
    IF reply.kind = "page"
    THEN [ok |-> TRUE,
          channels |-> [i \in 1..Len(reply.channels) |-> NormaliseChannel(reply.channels[i])]]
    ELSE [ok |-> FALSE, message |-> MsgFetchFailed]

\* One callback of channels.filter: name, then topic, then purpose, on the one
\* RegExp object (whose lastIndex is lastIndex), stopping at the first match.
TestChannel(re, lastIndex, ch) ==
    LET n == RegExpTest(re, lastIndex, ch.name) IN
    IF n.result THEN n
    ELSE LET t == RegExpTest(re, n.lastIndex, ch.topic) IN
         IF t.result THEN t
         ELSE RegExpTest(re, t.lastIndex, ch.purpose)

\* channels.filter(...) from the k-th channel on.
RECURSIVE FilterFrom(_, _, _, _)
FilterFrom(re, lastIndex, channels, k) ==
    IF k > Len(channels) THEN <<>>
    ELSE LET t == TestChannel(re, lastIndex, channels[k])
             rest == FilterFrom(re, t.lastIndex, channels, k + 1)
         IN  IF t.result THEN <<channels[k]>> \o rest ELSE rest

Reverse(s) == [i \in 1..Len(s) |-> s[Len(s) + 1 - i]]

\* (variant: the matches are handed back latest first)
FilterChannels_reversed(re, channels) == Reverse(FilterFrom(re, 0, channels, 1))

FilterChannels(re, channels) == FilterFrom(re, 0, channels, 1)

\* (variant: matchedChannels counts the fetched channels)
MatchResult_countsAll(pattern, flags, channels, matched) ==
    [pattern |-> pattern, flags |-> flags, totalChannels |-> Len(channels),
     matchedChannels |-> Len(channels), channels |-> matched]

\* The object groupChannelsByRegex returns.
MatchResult(pattern, flags, channels, matched) ==
    [pattern |-> pattern, flags |-> flags, totalChannels |-> Len(channels),
     matchedChannels |-> Len(matched), channels |-> matched]

\* flags = 'i' (default parameter)
DefaultFlags(flags) == IF flags = Undef THEN <<"i">> ELSE flags

\* The catch of groupChannelsByRegex.
groupCatch(message) ==
    IF includes(message, "Invalid regular expression")
    THEN MsgInvalidPattern
    ELSE MsgGroupFailed

\* groupChannelsByRegex after its fetch was answered.
groupChannelsByRegex(pattern, flags, re, reply) ==
    LET got == getAllChannels(reply) IN
    IF got.ok
    THEN [error |-> NoError,
          result |-> MatchResult(pattern, flags, got.channels,
                                 FilterChannels(re, got.channels))]
    ELSE [error |-> groupCatch(got.message), result |-> NoResult]

\* ----------------------------------------------------------- group store
\* this.groups: Map userId -> Map groupName -> {pattern, flags, createdAt}.
\* The outer Map is a function on the users that have an entry; an inner Map
\* is the sequence of its entries in insertion order.
NoGroups == <<>>

mapHas(userGroups, groupName) ==
    \E i \in 1..Len(userGroups) : userGroups[i].name = groupName

mapIndex(userGroups, groupName) ==
    CHOOSE i \in 1..Len(userGroups) : userGroups[i].name = groupName

mapGet(userGroups, groupName) == userGroups[mapIndex(userGroups, groupName)]

\* (variant: the entry is added without looking for the key)
mapSet_alwaysAppends(userGroups, groupName, config) ==
    Append(userGroups, [name |-> groupName, pattern |-> config.pattern,
                        flags |-> config.flags, createdAt |-> config.createdAt])

\* Map.prototype.set: an existing key keeps its place, a new key goes last.
mapSet(userGroups, groupName, config) ==
    LET entry == [name |-> groupName, pattern |-> config.pattern,
                  flags |-> config.flags, createdAt |-> config.createdAt]
    IN  IF mapHas(userGroups, groupName)
        THEN [userGroups EXCEPT ![mapIndex(userGroups, groupName)] = entry]
        ELSE Append(userGroups, entry)

\* Map.prototype.delete
mapDelete(userGroups, groupName) ==
    SelectSeq(userGroups, LAMBDA e : e.name # groupName)

\* this.groups.set(userId, userGroups)
groupsSet(store, userId, userGroups) ==
    [u \in DOMAIN store \cup {userId} |-> IF u = userId THEN userGroups ELSE store[u]]

\* (variant: this.groups.clear() in place of this.groups.delete(userId))
groupsDelete_clear(store, userId) == NoGroups

\* this.groups.delete(userId)
groupsDelete(store, userId) == [u \in DOMAIN store \ {userId} |-> store[u]]

\* this.groups.get(userId) || new Map()
groupsGetOrNew(store, userId) == IF userId \in DOMAIN store THEN store[userId] ELSE <<>>

\* (variant: an existing entry of the same name is kept as it is)
saveGroup_keepsExisting(store, userId, groupName, pattern, flags, now) ==
    IF mapHas(groupsGetOrNew(store, userId), groupName)
    THEN store
    ELSE groupsSet(store, userId,
                   mapSet(groupsGetOrNew(store, userId), groupName,
                          [pattern |-> pattern, flags |-> DefaultFlags(flags),
                           createdAt |-> now]))

\* (variant: the flags argument is dropped and the default stored)
saveGroup_dropFlags(store, userId, groupName, pattern, flags, now) ==
    groupsSet(store, userId,
              mapSet(groupsGetOrNew(store, userId), groupName,
                     [pattern |-> pattern, flags |-> <<"i">>, createdAt |-> now]))

\* saveGroup(userId, groupName, pattern, flags = 'i') at time now: the store
\* it leaves (it returns true).
saveGroup(store, userId, groupName, pattern, flags, now) ==
    groupsSet(store, userId,
              mapSet(groupsGetOrNew(store, userId), groupName,
                     [pattern |-> pattern, flags |-> DefaultFlags(flags),
                      createdAt |-> now]))

\* getUserGroups(userId): the list it returns.
getUserGroups(store, userId) == groupsGetOrNew(store, userId)

\* (variant: the Map made for an unknown user is put into this.groups)
getUserGroupsStore_keepsNewMap(store, userId) ==
    groupsSet(store, userId, groupsGetOrNew(store, userId))

\* getUserGroups(userId): the store it leaves. The Map made by "|| new Map()"
\* for an unknown user is only iterated, never put into this.groups.
getUserGroupsStore(store, userId) == store

\* (variant: the user's Map is kept when its last entry is deleted)
deleteGroup_keepsEmptyMap(store, userId, groupName) ==
    IF userId \notin DOMAIN store \/ ~mapHas(store[userId], groupName)
    THEN [value |-> FALSE, store |-> store]
    ELSE [value |-> TRUE,
          store |-> groupsSet(store, userId, mapDelete(store[userId], groupName))]

\* (variant: the name is not looked up before it is deleted)
deleteGroup_noHasCheck(store, userId, groupName) ==
    IF userId \notin DOMAIN store
    THEN [value |-> FALSE, store |-> store]
    ELSE LET userGroups == mapDelete(store[userId], groupName) IN
         [value |-> TRUE,
          store |-> IF Len(userGroups) = 0
                    THEN groupsDelete(store, userId)
                    ELSE groupsSet(store, userId, userGroups)]

\* deleteGroup(userId, groupName): the value returned and the store it leaves.
deleteGroup(store, userId, groupName) ==
    IF userId \notin DOMAIN store \/ ~mapHas(store[userId], groupName)
    THEN [value |-> FALSE, store |-> store]
    ELSE LET userGroups == mapDelete(store[userId], groupName) IN
         [value |-> TRUE,
          store |-> IF Len(userGroups) = 0
                    THEN groupsDelete(store, userId)
                    ELSE groupsSet(store, userId, userGroups)]

\* applySavedGroup(userId, groupName) up to its call of groupChannelsByRegex:
\* the stored config, or the thrown "Group '...' not found".
applyLookup(store, userId, groupName) ==
    IF userId \notin DOMAIN store \/ ~mapHas(store[userId], groupName)
    THEN [found |-> FALSE, message |-> MsgGroupNotFound]
    ELSE [found |-> TRUE, config |-> mapGet(store[userId], groupName)]

\* --------------------------------------------------- listChannelsMatching
\* The forEach over one page: re.test(ch.name) pushes {id, name}. The RegExp
\* is built without flags, so test leaves its lastIndex alone.
RECURSIVE PageMatches(_, _, _)
PageMatches(re, channels, k) ==
    IF k > Len(channels) THEN <<>>
    ELSE LET rest == PageMatches(re, channels, k + 1) IN
         IF RegExpTest(re, 0, channels[k].name).result
         THEN <<[id |-> channels[k].id, name |-> channels[k].name]>> \o rest
         ELSE rest

\* ------------------------------------------------------------------ state
VARIABLES
    upstream,   \* the workspace's channel listing, as the upstream holds it
    groups,     \* this.groups of the one service instance
    now,        \* the clock read by new Date()
    call,       \* per caller: the asynchronous call in flight and its outcome
    ret,        \* what the store call of the step just taken returned
    saved,      \* history: the arguments of the latest saveGroup of each stored (user, name)
    inflight,   \* the save and delete requests received whose handler has yet to run
    env,        \* the deployment: process.env and the entry point that runs
    front       \* the front-end handler suspended on the core, and its request

vars == <<upstream, groups, now, call, ret, saved, inflight, env, front>>

Procs == {1}
Users == {"U1", "U2"}
GroupNames == {"g1", "g2"}

\* The further names a slash command of the texts explored can store under.
SlashNames == {"a", "a b"}
StoredNames == GroupNames \cup SlashNames

Pat_dev == <<"d", "e", "v">>
Pat_hat_dev == <<"^", "d", "e", "v">>
Pat_t == <<"t">>
Pat_open == <<"(">>
Pat_group == <<"(", "o", ")">>

\* Pattern and flags arguments explored for the matching calls.
Patterns == {Pat_dev, Pat_hat_dev, Pat_t, Pat_open, Pat_group}
FlagArgs == {Undef, <<>>, <<"g">>, <<"g", "i">>, <<"y">>, <<"x">>, <<"i", "i">>}

\* Arguments explored for the calls that go through the store: the (user,
\* name) pairs, the (pattern, flags) pairs and the listings.
StoreKeys == {<<"U1", "g1">>, <<"U1", "g2">>, <<"U2", "g1">>}
StoreArgs == {<<Pat_dev, <<"g">>>>, <<Pat_open, Undef>>}
StoreListings == {ExampleListing}

NoArgs == [set |-> FALSE]
NoRet == [op |-> "none"]
NoReply == [kind |-> "none"]

\* A configured deployment: its secrets (an unset variable reads as "") and
\* the entry point that runs, the bot with its router ("bot") or the
\* tool-protocol server ("mcp"), each of which builds its own service.
ConfiguredEnv == [API_SECRET_KEY |-> "k1", SLACK_SIGNING_SECRET |-> "s1", MAIN |-> "bot"]

\* No front-end handler is suspended.
IdleFront == [pc |-> "idle"]

IdleCall ==
    [pc |-> "idle", op |-> "none", userId |-> "", groupName |-> "",
     pattern |-> <<>>, flags |-> <<>>, regex |-> NoRegex, cursor |-> 0,
     matches |-> <<>>, fetched |-> <<>>, requests |-> 0, failed |-> FALSE,
     error |-> NoError, result |-> NoResult, args |-> NoArgs, reply |-> NoReply]

\* (variant: the listing is requested before the RegExp is compiled)
groupStart_fetchFirst(c, pattern, flagArg) ==
    LET flags == DefaultFlags(flagArg)
        re == NewRegExp(pattern, flags)
    IN  IF re.ok
        THEN [c EXCEPT !.pc = "awaiting", !.pattern = pattern, !.flags = flags,
                       !.regex = re, !.requests = 1]
        ELSE [c EXCEPT !.pc = "done", !.pattern = pattern, !.flags = flags,
                       !.requests = 1, !.error = groupCatch(re.message)]

\* groupChannelsByRegex(pattern, flags = 'i') up to its first await: the
\* RegExp is compiled, and only then is the channel listing requested.
groupStart(c, pattern, flagArg) ==
    LET flags == DefaultFlags(flagArg)
        re == NewRegExp(pattern, flags)
    IN  IF re.ok
        THEN [c EXCEPT !.pc = "awaiting", !.pattern = pattern, !.flags = flags,
                       !.regex = re, !.requests = 1]
        ELSE [c EXCEPT !.pc = "done", !.pattern = pattern, !.flags = flags,
                       !.error = groupCatch(re.message)]

\* groupChannelsByRegex resumed with the reply to its request.
groupResume(c, reply) ==
    LET out == groupChannelsByRegex(c.pattern, c.flags, c.regex, reply)
        got == getAllChannels(reply)
    IN  [c EXCEPT !.pc = "done", !.error = out.error, !.result = out.result,
                  !.failed = ~got.ok, !.reply = reply,
                  !.fetched = IF got.ok THEN got.channels ELSE <<>>]

\* A direct getAllChannels call resumed with the reply to its request.
getAllResume(c, reply) ==
    LET got == getAllChannels(reply) IN
    IF got.ok
    THEN [c EXCEPT !.pc = "done", !.result = [channels |-> got.channels],
                   !.fetched = got.channels, !.reply = reply]
    ELSE [c EXCEPT !.pc = "done", !.error = got.message, !.failed = TRUE,
                   !.reply = reply]

\* listChannelsMatching(regexStr) up to its first await.
listStart(c, regexStr) ==
    LET re == NewRegExp(regexStr, <<>>) IN
    IF re.ok
    THEN [c EXCEPT !.pc = "awaiting", !.pattern = regexStr, !.regex = re,
                   !.requests = 1]
    ELSE [c EXCEPT !.pc = "done", !.pattern = regexStr,
                   !.error = <<"Invalid regex">> \o regexStr]

\* (variant: a failed page request hands back the matches gathered so far)
listResume_keepsPartial(c, reply) ==
    IF reply.kind # "page"
    THEN [c EXCEPT !.pc = "done", !.error = reply.message, !.failed = TRUE,
                   !.reply = reply, !.result = [matches |-> c.matches]]
    ELSE LET matches == c.matches \o PageMatches(c.regex, reply.channels, 1)
             fetched == c.fetched \o reply.channels
         IN  IF reply.next_cursor # 0
             THEN [c EXCEPT !.matches = matches, !.fetched = fetched,
                            !.reply = reply,
                            !.cursor = reply.next_cursor, !.requests = @ + 1]
             ELSE [c EXCEPT !.pc = "done", !.matches = matches, !.fetched = fetched,
                            !.reply = reply,
                            !.result = [matches |-> matches]]

\* One turn of the do/while of listChannelsMatching, resumed with a reply.
listResume(c, reply) ==
    IF reply.kind # "page"
    THEN [c EXCEPT !.pc = "done", !.error = reply.message, !.failed = TRUE,
                   !.reply = reply]
    ELSE LET matches == c.matches \o PageMatches(c.regex, reply.channels, 1)
             fetched == c.fetched \o reply.channels
         IN  IF reply.next_cursor # 0
             THEN [c EXCEPT !.matches = matches, !.fetched = fetched,
                            !.reply = reply,
                            !.cursor = reply.next_cursor, !.requests = @ + 1]
             ELSE [c EXCEPT !.pc = "done", !.matches = matches, !.fetched = fetched,
                            !.reply = reply,
                            !.result = [matches |-> matches]]

\* applySavedGroup(userId, groupName) up to its first await.
applyStart(c, store, userId, groupName) ==
    LET look == applyLookup(store, userId, groupName) IN
    IF look.found
    THEN groupStart(c, look.config.pattern, look.config.flags)
    ELSE [c EXCEPT !.pc = "done", !.error = look.message]

\* ---------------------------------------------------------------- actions
CallGroup(p, pattern, flagArg) ==
    /\ call[p].pc = "idle"
    /\ call' = [call EXCEPT ![p] = groupStart([IdleCall EXCEPT !.op = "group"],
                                              pattern, flagArg)]
    /\ ret' = NoRet
    /\ UNCHANGED <<env, front, inflight, upstream, groups, now, saved>>

CallGetAll(p) ==
    /\ call[p].pc = "idle"
    /\ call' = [call EXCEPT ![p] = [IdleCall EXCEPT !.op = "getAll",
                                                    !.pc = "awaiting",
                                                    !.requests = 1]]
    /\ ret' = NoRet
    /\ UNCHANGED <<env, front, inflight, upstream, groups, now, saved>>

CallList(p, regexStr) ==
    /\ call[p].pc = "idle"
    /\ call' = [call EXCEPT ![p] = listStart([IdleCall EXCEPT !.op = "list"], regexStr)]
    /\ ret' = NoRet
    /\ UNCHANGED <<env, front, inflight, upstream, groups, now, saved>>

CallApply(p, userId, groupName) ==
    /\ call[p].pc = "idle"
    /\ call' = [call EXCEPT ![p] =
                 applyStart([IdleCall EXCEPT !.op = "apply", !.userId = userId,
                                             !.groupName = groupName,
                                             !.args = saved[userId][groupName]],
                            groups, userId, groupName)]
    /\ ret' = NoRet
    /\ UNCHANGED <<env, front, inflight, upstream, groups, now, saved>>

\* (variant: applySavedGroup looks the group up again when its request is
\* answered)
Reply_rereadsStore(p) ==
    /\ call[p].pc = "awaiting"
    /\ \E reply \in {ConversationsList(upstream, call[p].cursor)} \cup Failures :
         call' = [call EXCEPT ![p] =
                    CASE call[p].op = "getAll" -> getAllResume(call[p], reply)
                      [] call[p].op = "list" -> listResume(call[p], reply)
                      [] call[p].op = "apply" ->
                           LET look == applyLookup(groups, call[p].userId, call[p].groupName) IN
                           IF ~look.found
                           THEN [call[p] EXCEPT !.pc = "done", !.error = look.message,
                                                !.reply = reply]
                           ELSE IF ~NewRegExp(look.config.pattern, look.config.flags).ok
                           THEN [call[p] EXCEPT !.pc = "done", !.error = MsgInvalidPattern,
                                                !.reply = reply]
                           ELSE groupResume([call[p] EXCEPT
                                               !.pattern = look.config.pattern,
                                               !.flags = look.config.flags,
                                               !.regex = NewRegExp(look.config.pattern,
                                                                   look.config.flags)],
                                            reply)
                      [] OTHER -> groupResume(call[p], reply)]
    /\ ret' = NoRet
    /\ UNCHANGED <<env, front, inflight, upstream, groups, now, saved>>

\* The upstream answers the pending request of caller p, or the request fails.
Reply(p) ==
    /\ call[p].pc = "awaiting"
    /\ \E reply \in {ConversationsList(upstream, call[p].cursor)} \cup Failures :
         call' = [call EXCEPT ![p] =
                    CASE call[p].op = "getAll" -> getAllResume(call[p], reply)
                      [] call[p].op = "list" -> listResume(call[p], reply)
                      [] OTHER -> groupResume(call[p], reply)]
    /\ ret' = NoRet
    /\ UNCHANGED <<env, front, inflight, upstream, groups, now, saved>>

\* The caller has taken the outcome of its call.
Return(p) ==
    /\ call[p].pc = "done"
    /\ call' = [call EXCEPT ![p] = IdleCall]
    /\ ret' = NoRet
    /\ UNCHANGED <<env, front, inflight, upstream, groups, now, saved>>

SaveGroup(userId, groupName, pattern, flagArg) ==
    /\ groups' = saveGroup(groups, userId, groupName, pattern, flagArg, now)
    /\ ret' = [op |-> "saveGroup", userId |-> userId, groupName |-> groupName,
               value |-> TRUE]
    /\ saved' = [saved EXCEPT ![userId][groupName] =
                   [set |-> TRUE, pattern |-> pattern, flags |-> flagArg]]
    /\ UNCHANGED <<env, front, inflight, upstream, now, call>>

DeleteGroup(userId, groupName) ==
    /\ groups' = deleteGroup(groups, userId, groupName).store
    /\ ret' = [op |-> "deleteGroup", userId |-> userId, groupName |-> groupName,
               value |-> deleteGroup(groups, userId, groupName).value]
    /\ saved' = [saved EXCEPT ![userId][groupName] = NoArgs]
    /\ UNCHANGED <<env, front, inflight, upstream, now, call>>

GetUserGroups(userId) ==
    /\ ret' = [op |-> "getUserGroups", userId |-> userId, groupName |-> "",
               value |-> getUserGroups(groups, userId)]
    /\ groups' = getUserGroupsStore(groups, userId)
    /\ UNCHANGED <<env, front, inflight, upstream, now, call, saved>>

\* Time passes.
Tick ==
    /\ now < MaxClock
    /\ now' = now + 1
    /\ ret' = NoRet
    /\ UNCHANGED <<env, front, inflight, upstream, groups, call, saved>>

\* ---------------------------------------------------------- specifications
InitCommon ==
    /\ groups = NoGroups
    /\ now = 0
    /\ call = [p \in Procs |-> IdleCall]
    /\ ret = NoRet
    /\ saved = [u \in Users |-> [g \in StoredNames |-> NoArgs]]
    /\ inflight = {}
    /\ env = ConfiguredEnv
    /\ front = IdleFront

\* The service with its store: one caller of the asynchronous operations
\* at a time per slot, the store calls in between.
Init ==
    /\ upstream \in StoreListings
    /\ InitCommon

Next ==
    \/ \E p \in Procs, a \in StoreArgs : CallGroup(p, a[1], a[2])
    \/ \E p \in Procs, k \in StoreKeys : CallApply(p, k[1], k[2])
    \/ \E p \in Procs : Reply(p)
    \/ \E p \in Procs : Return(p)
    \/ \E k \in StoreKeys, a \in StoreArgs : SaveGroup(k[1], k[2], a[1], a[2])
    \/ \E k \in StoreKeys : DeleteGroup(k[1], k[2])
    \/ \E u \in Users : GetUserGroups(u)
    \/ Tick

Spec == Init /\ [][Next]_vars

\* The matching operations alone, over every listing, pattern and flags.
InitMatch ==
    /\ upstream \in Listings
    /\ InitCommon

NextMatch ==
    \/ \E pattern \in Patterns, flagArg \in FlagArgs : CallGroup(1, pattern, flagArg)
    \/ CallGetAll(1)
    \/ \E regexStr \in Patterns : CallList(1, regexStr)
    \/ Reply(1)
    \/ Return(1)

SpecMatch == InitMatch /\ [][NextMatch]_vars

\* listChannelsMatching alone, with an upstream that answers every request
\* (with a page or a failure).
NextList ==
    \/ \E regexStr \in Patterns : CallList(1, regexStr)
    \/ Reply(1)
    \/ Return(1)

SpecList == InitMatch /\ [][NextList]_vars

FairList == SpecList /\ WF_vars(Reply(1))

\* ------------------------------------------------- formatChannelsForSlack
\* Texts are sequences of string pieces; a number is its decimal text.
DefaultLimit == 20

\* The limit argument: omitted, or a number.
NoLimit == [given |-> FALSE, value |-> 0]
Limit(n) == [given |-> TRUE, value |-> n]

\* limit = 20 (default parameter)
LimitOr20(limitArg) == IF limitArg.given THEN limitArg.value ELSE DefaultLimit

\* (variant: nothing is cut off)
Slice_whole(channels, limit) == channels

\* channels.slice(0, limit): a negative end counts from the end.
Slice(channels, limit) ==
    IF limit < 0
    THEN SubSeq(channels, 1, Len(channels) + limit)
    ELSE SubSeq(channels, 1, Min(limit, Len(channels)))

\* (variant: a list exactly as long as the limit counts as having more)
HasMore_orEqual(channels, limit) == Len(channels) >= limit

\* const hasMore = channels.length > limit
HasMore(channels, limit) == Len(channels) > limit

Archived(ch) == IF ch.is_archived THEN <<" (archived)">> ELSE <<>>

\* The mark that opens and closes inline code in mrkdwn (a backquote in the
\* source), and the bullets (a round bullet in the source).
CodeQuote == "'"
BulletPublic == "* <#"
BulletPrivate == "* #"

PublicLine(ch) == <<BulletPublic, ch.id, "|">> \o ch.name \o <<">">> \o Archived(ch)
PrivateLine(ch) == <<BulletPrivate>> \o ch.name \o Archived(ch)

\* lines.map(...).join('\n') from the k-th channel on.
RECURSIVE JoinLines(_, _, _)
JoinLines(channels, private, k) ==
    IF k > Len(channels) THEN <<>>
    ELSE (IF k > 1 THEN <<"\n">> ELSE <<>>)
         \o (IF private THEN PrivateLine(channels[k]) ELSE PublicLine(channels[k]))
         \o JoinLines(channels, private, k + 1)

Block(type, text) == [type |-> type, text |-> text]

\* The payload of a result without matches.
NoMatchPayload(pattern) ==
    [text |-> <<"No channels found matching pattern: ", CodeQuote>> \o pattern \o <<CodeQuote>>,
     blocks |-> <<>>]

\* The payload of a result with matches: header, divider, the public and the
\* private section when not empty, the notice when there are more.
FoundPayload(groupResult, limit) ==
    LET pattern == groupResult.pattern
        matchedChannels == groupResult.matchedChannels
        channels == groupResult.channels
        displayChannels == Slice(channels, limit)
        publicChannels == SelectSeq(displayChannels, LAMBDA ch : ~ch.is_private)
        privateChannels == SelectSeq(displayChannels, LAMBDA ch : ch.is_private)
    IN  [text |-> <<"Found ", ToString(matchedChannels),
                    " channels matching pattern: ">> \o pattern,
         blocks |->
            <<Block("section", <<"*Found ", ToString(matchedChannels),
                                 " channels matching pattern:* ", CodeQuote>> \o pattern
                                 \o <<CodeQuote>>),
              Block("divider", <<>>)>>
            \o (IF Len(publicChannels) > 0
                THEN <<Block("section",
                             <<"*Public Channels (", ToString(Len(publicChannels)), "):*\n">>
                             \o JoinLines(publicChannels, FALSE, 1))>>
                ELSE <<>>)
            \o (IF Len(privateChannels) > 0
                THEN <<Block("section",
                             <<"*Private Channels (", ToString(Len(privateChannels)), "):*\n">>
                             \o JoinLines(privateChannels, TRUE, 1))>>
                ELSE <<>>)
            \o (IF HasMore(channels, limit)
                THEN <<Block("context",
                             <<"_Showing first ", ToString(limit), " channels. ",
                               ToString(Len(channels) - limit),
                               " more channels match this pattern._">>)>>
                ELSE <<>>)]

\* (variant: no early return for a result without matches)
formatChannelsForSlack_noEarlyReturn(groupResult, limitArg) ==
    FoundPayload(groupResult, LimitOr20(limitArg))

\* formatChannelsForSlack(groupResult, limit = 20)
formatChannelsForSlack(groupResult, limitArg) ==
    IF groupResult.matchedChannels = 0
    THEN NoMatchPayload(groupResult.pattern)
    ELSE FoundPayload(groupResult, LimitOr20(limitArg))

\* A workspace with one channel more than the default limit, every name
\* "devt" and two digits, private and public in turn.
LongListing ==
    [i \in 1..(DefaultLimit + 1) |->
        RawChannel(ToString(i), Str_devt \o <<ToString(i \div 10), ToString(i % 10)>>,
                   i % 2 = 0, FALSE, Absent, Absent)]

FormatPatterns == {Pat_dev, Pat_t, Pat_group}
Limits == {NoLimit} \cup {Limit(n) : n \in -1..MaxChannels}

\* The whole listing in one page (the service asks for pages of 1000).
WholePage(listing) == [kind |-> "page", channels |-> listing, next_cursor |-> 0]

\* A grouping of the workspace by pattern is formatted with the limit given.
Format(pattern, limitArg) ==
    LET c == groupResume(groupStart([IdleCall EXCEPT !.op = "group"], pattern, Undef),
                         WholePage(upstream))
    IN  /\ ret' = [op |-> "format", result |-> c.result, limit |-> limitArg,
                   value |-> formatChannelsForSlack(c.result, limitArg)]
        /\ UNCHANGED <<env, front, inflight, upstream, groups, now, call, saved>>

InitFormat ==
    /\ upstream \in Listings \cup {LongListing}
    /\ InitCommon

NextFormat == \E pattern \in FormatPatterns, limitArg \in Limits : Format(pattern, limitArg)

SpecFormat == InitFormat /\ [][NextFormat]_vars

\* ------------------------------------------------- front ends on one store
\* SlackChannelGrouperBot hands the one ChannelGrouperService to the slash
\* command handler and to the REST routes. A request is in flight from its
\* receipt (the slash command's awaited ack, the HTTP request's dispatch)
\* until its handler runs; a handler runs without suspending up to and
\* including its saveGroup or deleteGroup call.
MaxInflight == 2

FrontEnds == {"slash", "rest"}
RaceKeys == {<<"U1", "g1">>, <<"U1", "g2">>}

Request(via, op, userId, groupName, pattern, flags) ==
    [via |-> via, op |-> op, userId |-> userId, groupName |-> groupName,
     pattern |-> pattern, flags |-> flags]

\* A slash save carries no flags; a REST save carries flags or omits them.
Requests ==
    {Request("slash", "save", k[1], k[2], a[1], Undef) : k \in RaceKeys, a \in StoreArgs}
    \cup {Request("rest", "save", k[1], k[2], a[1], DefaultFlags(a[2])) :
             k \in RaceKeys, a \in StoreArgs}
    \cup {Request(via, "delete", k[1], k[2], <<>>, <<>>) : via \in FrontEnds, k \in RaceKeys}

\* Whether the save handler of the front end gets as far as saveGroup:
\* handleSave tries new RegExp(pattern), handleSaveGroup wants a pattern and
\* tries new RegExp(pattern, flags) with flags = 'i' when omitted.
saveAccepted(r) ==
    IF r.via = "slash"
    THEN NewRegExp(r.pattern, <<>>).ok
    ELSE Len(r.pattern) > 0 /\ NewRegExp(r.pattern, r.flags).ok

Arrive(r) ==
    /\ Cardinality(inflight) < MaxInflight
    /\ r \notin inflight
    /\ inflight' = inflight \cup {r}
    /\ ret' = NoRet
    /\ UNCHANGED <<env, front, upstream, groups, now, call, saved>>

HandleSave(r) ==
    /\ r \in inflight /\ r.op = "save"
    /\ inflight' = inflight \ {r}
    /\ IF saveAccepted(r)
       THEN /\ groups' = saveGroup(groups, r.userId, r.groupName, r.pattern, r.flags, now)
            /\ ret' = [op |-> "saveGroup", userId |-> r.userId,
                       groupName |-> r.groupName, value |-> TRUE]
            /\ saved' = [saved EXCEPT ![r.userId][r.groupName] =
                           [set |-> TRUE, pattern |-> r.pattern, flags |-> r.flags]]
       ELSE /\ ret' = [op |-> "rejected", userId |-> r.userId,
                       groupName |-> r.groupName, value |-> FALSE]
            /\ UNCHANGED <<groups, saved>>
    /\ UNCHANGED <<env, front, upstream, now, call>>

HandleDelete(r) ==
    /\ r \in inflight /\ r.op = "delete"
    /\ inflight' = inflight \ {r}
    /\ groups' = deleteGroup(groups, r.userId, r.groupName).store
    /\ ret' = [op |-> "deleteGroup", userId |-> r.userId, groupName |-> r.groupName,
               value |-> deleteGroup(groups, r.userId, r.groupName).value]
    /\ saved' = [saved EXCEPT ![r.userId][r.groupName] = NoArgs]
    /\ UNCHANGED <<env, front, upstream, now, call>>

\* Requests of both front ends racing on the one store.
NextRace ==
    \/ \E r \in Requests : Arrive(r)
    \/ \E r \in Requests : HandleSave(r)
    \/ \E r \in Requests : HandleDelete(r)

SpecRace == Init /\ [][NextRace]_vars

\* ------------------------------------------------------- the HTTP front ends
\* The /api router of the bot process (APIRoutes, on the bot's one service)
\* and the serverless endpoints, which build a service without a store for
\* each request.
NoHeader == [given |-> FALSE, value |-> 0]

Http(endpoint, method, route) ==
    [endpoint |-> endpoint, method |-> method, route |-> route, apiKey |-> "",
     userId |-> "", groupName |-> "", pattern |-> <<>>, flags |-> Undef,
     signature |-> <<>>, timestamp |-> NoHeader, text |-> <<>>]

MsgKeyNotConfigured == <<"API key", " not configured on server">>
MsgKeyInvalid == <<"Invalid or missing ", "API key">>
MsgPatternRequired == <<"Pattern is required">>

\* What a handler has done when it returns or suspends: the response status
\* (0: none yet), the store, the save history and the core call it started.
Outcome(status, store, sv, c, message) ==
    [status |-> status, groups |-> store, saved |-> sv, call |-> c, message |-> message]

Answer(status, store, sv, message) == Outcome(status, store, sv, IdleCall, message)

\* (variant: the key check lets every request through)
checkApiKey_open(e, apiKey) == 0

\* The API key middleware of the router: the status it answers, 0 for next().
checkApiKey(e, apiKey) ==
    IF e.API_SECRET_KEY = "" THEN 500
    ELSE IF apiKey = "" \/ apiKey # e.API_SECRET_KEY THEN 401
    ELSE 0

\* authenticate(req) of the serverless endpoints: the message it throws.
authenticate(e, apiKey) ==
    IF e.API_SECRET_KEY = "" THEN MsgKeyNotConfigured
    ELSE IF apiKey = "" \/ apiKey # e.API_SECRET_KEY THEN MsgKeyInvalid
    ELSE NoError

\* The catch of the serverless channels endpoint.
channelsCatch(message) == IF includes(message, "API key") THEN 401 ELSE 400

\* The catch of the serverless suggestions endpoint.
suggestionsCatch(message) == IF includes(message, "API key") THEN 401 ELSE 500

\* (variant: the pattern is saved without being compiled)
handleSaveGroup_noCheck(store, sv, r, t) ==
    LET flags == DefaultFlags(r.flags) IN
    IF r.groupName = "" \/ r.pattern = <<>>
    THEN Answer(400, store, sv, <<"groupName and pattern are required">>)
    ELSE Answer(200, saveGroup(store, r.userId, r.groupName, r.pattern, flags, t),
                [sv EXCEPT ![r.userId][r.groupName] =
                    [set |-> TRUE, pattern |-> r.pattern, flags |-> flags]],
                NoError)

handleSaveGroup(store, sv, r, t) ==
    LET flags == DefaultFlags(r.flags) IN
    IF r.groupName = "" \/ r.pattern = <<>>
    THEN Answer(400, store, sv, <<"groupName and pattern are required">>)
    ELSE IF ~NewRegExp(r.pattern, flags).ok
    THEN Answer(400, store, sv, <<"Invalid regex pattern">>)
    ELSE Answer(200, saveGroup(store, r.userId, r.groupName, r.pattern, flags, t),
                [sv EXCEPT ![r.userId][r.groupName] =
                    [set |-> TRUE, pattern |-> r.pattern, flags |-> flags]],
                NoError)

handleDeleteGroup(store, sv, r) ==
    LET out == deleteGroup(store, r.userId, r.groupName) IN
    IF out.value
    THEN Answer(200, out.store, [sv EXCEPT ![r.userId][r.groupName] = NoArgs], NoError)
    ELSE Answer(404, out.store, sv, MsgGroupNotFound)

\* A route handler of the router up to its return or its first await.
routeHandler(store, sv, r, t) ==
    CASE r.route = "GET /channels" ->
           Outcome(0, store, sv, [IdleCall EXCEPT !.op = "getAll", !.pc = "awaiting",
                                                  !.requests = 1], NoError)
      [] r.route = "POST /channels/group" ->
           IF r.pattern = <<>>
           THEN Answer(400, store, sv, MsgPatternRequired)
           ELSE Outcome(0, store, sv,
                        groupStart([IdleCall EXCEPT !.op = "group"], r.pattern, r.flags),
                        NoError)
      [] r.route = "GET /groups/:userId" ->
           Answer(200, getUserGroupsStore(store, r.userId), sv, NoError)
      [] r.route = "POST /groups/:userId" -> handleSaveGroup(store, sv, r, t)
      [] r.route = "DELETE /groups/:userId/:groupName" -> handleDeleteGroup(store, sv, r)
      [] r.route = "POST /groups/:userId/:groupName/apply" ->
           Outcome(0, store, sv,
                   applyStart([IdleCall EXCEPT !.op = "apply", !.userId = r.userId,
                                               !.groupName = r.groupName,
                                               !.args = sv[r.userId][r.groupName]],
                              store, r.userId, r.groupName),
                   NoError)
      [] OTHER -> Answer(200, store, sv, NoError)

\* The router: the key middleware, then the route's handler.
router(e, store, sv, r, t) ==
    LET key == checkApiKey(e, r.apiKey) IN
    IF key # 0
    THEN Answer(key, store, sv, IF key = 500 THEN MsgKeyNotConfigured ELSE MsgKeyInvalid)
    ELSE routeHandler(store, sv, r, t)

\* The serverless channels endpoint up to its return or its first await.
channelsEndpoint(e, store, sv, r) ==
    LET key == authenticate(e, r.apiKey) IN
    IF r.method = "OPTIONS" THEN Answer(200, store, sv, NoError)
    ELSE IF key # NoError THEN Answer(channelsCatch(key), store, sv, key)
    ELSE IF r.method = "GET"
    THEN Outcome(0, store, sv, [IdleCall EXCEPT !.op = "getAll", !.pc = "awaiting",
                                                !.requests = 1], NoError)
    ELSE IF r.method = "POST"
    THEN IF r.pattern = <<>>
         THEN Answer(400, store, sv, MsgPatternRequired)
         ELSE Outcome(0, store, sv,
                      groupStart([IdleCall EXCEPT !.op = "group"], r.pattern, r.flags),
                      NoError)
    ELSE Answer(405, store, sv, <<"Method not allowed">>)

\* The serverless suggestions endpoint: it never suspends.
suggestionsEndpoint(e, store, sv, r) ==
    LET key == authenticate(e, r.apiKey) IN
    IF r.method = "OPTIONS" THEN Answer(200, store, sv, NoError)
    ELSE IF r.method # "GET" THEN Answer(405, store, sv, <<"Method not allowed">>)
    ELSE IF key # NoError THEN Answer(suggestionsCatch(key), store, sv, key)
    ELSE Answer(200, store, sv, NoError)

\* ------------------------------------------------------ slash-command text
\* A text is a sequence of pieces; the piece " " is white space, the piece
\* QuoteMark is a double quote, and no other piece holds either.
QuoteMark == "\""
IsSpace(c) == c = " "

\* The places where a run of pieces other than white space begins.
WordStarts(text) ==
    {i \in 1..Len(text) : ~IsSpace(text[i]) /\ (i = 1 \/ IsSpace(text[i - 1]))}

WordEnd(text, i) ==
    CHOOSE j \in i..Len(text) :
        /\ \A k \in i..j : ~IsSpace(text[k])
        /\ j = Len(text) \/ IsSpace(text[j + 1])

\* text.trim().split(/\s+/): the runs between white space; [''] for a text
\* that holds nothing else.
TrimSplit(text) ==
    LET starts == WordStarts(text)
        start(n) == CHOOSE i \in starts : Cardinality({j \in starts : j < i}) = n - 1
    IN  IF starts = {} THEN << <<>> >>
        ELSE [n \in 1..Cardinality(starts) |->
                 SubSeq(text, start(n), WordEnd(text, start(n)))]

\* args.slice(1)
Tail1(args) == SubSeq(args, 2, Len(args))

\* params.slice(k).join(' ')
RECURSIVE JoinFrom(_, _)
JoinFrom(params, k) ==
    IF k > Len(params) THEN <<>>
    ELSE IF k = Len(params) THEN params[k]
    ELSE params[k] \o <<" ">> \o JoinFrom(params, k + 1)

\* s.replace(/"/g, '')
StripQuotes(s) == SelectSeq(s, LAMBDA c : c # QuoteMark)

\* parseCommand(text): command = args[0] || 'help', params = args.slice(1)
parseCommand(text) ==
    LET args == TrimSplit(text) IN
    [command |-> IF args[1] = <<>> THEN <<"help">> ELSE args[1],
     params |-> Tail1(args), rawText |-> text]

\* ------------------------------------------- serverless slash-command endpoint
\* The HMAC of the base string v0:timestamp:rawBody under a secret: equal
\* digests only for equal secret, timestamp and body.
Hmac(secret, timestamp, rawBody) == <<"v0=", secret, timestamp, rawBody>>

Abs(n) == IF n < 0 THEN 0 - n ELSE n

MaxSkew == 300

\* verifySlackSignature(rawBody, signature, timestamp): the message it throws.
verifySlackSignature(e, rawBody, signature, timestamp, t) ==
    IF e.SLACK_SIGNING_SECRET = "" THEN <<"SLACK_SIGNING_SECRET not configured">>
    ELSE IF Abs(t - timestamp) > MaxSkew THEN <<"Request timestamp too old">>
    ELSE IF signature # Hmac(e.SLACK_SIGNING_SECRET, timestamp, rawBody)
    THEN <<"Invalid signature">>
    ELSE NoError

\* The serverless slash-command handler up to its return or its first await.
\* Every answer after the method checks has status 200; the message tells
\* an error answer from the others.
slashEndpoint(e, store, sv, r, t) ==
    LET checked == r.signature # <<>> /\ r.timestamp.given
        thrown == IF checked
                  THEN verifySlackSignature(e, r.text, r.signature, r.timestamp.value, t)
                  ELSE NoError
        cmd == parseCommand(r.text)
    IN  IF r.method = "OPTIONS" THEN Answer(200, store, sv, NoError)
        ELSE IF r.method # "POST" THEN Answer(405, store, sv, <<"Method not allowed">>)
        ELSE IF thrown # NoError THEN Answer(200, store, sv, thrown)
        ELSE IF cmd.command \in {<<"search">>, <<"group">>}
        THEN IF Len(cmd.params) = 0
             THEN Answer(200, store, sv, NoError)
             ELSE Outcome(0, store, sv,
                          groupStart([IdleCall EXCEPT !.op = "group"],
                                     JoinFrom(cmd.params, 1), Undef),
                          NoError)
        ELSE Answer(200, store, sv, NoError)

\* The status a handler answers when its awaited core call has settled.
settledStatus(r, c) ==
    IF c.error = NoError \/ r.endpoint = "slash-commands" THEN 200
    ELSE IF r.endpoint = "channels" THEN channelsCatch(c.error)
    ELSE IF r.route = "GET /channels" THEN 500
    ELSE 400

ApiKeys == {"", "k1", "k2"}
RestUser == "U1"

RouterRequests ==
    {[Http("router", m[1], m[2]) EXCEPT !.apiKey = k] :
        m \in {<<"GET", "GET /health">>, <<"GET", "GET /channels">>,
               <<"GET", "GET /suggestions">>, <<"GET", "GET /docs">>},
        k \in ApiKeys}
    \cup {[Http("router", "POST", "POST /channels/group") EXCEPT
              !.apiKey = k, !.pattern = pattern] :
             k \in ApiKeys, pattern \in {<<>>, Pat_dev, Pat_open}}
    \cup {[Http("router", "GET", "GET /groups/:userId") EXCEPT
              !.apiKey = k, !.userId = RestUser] : k \in ApiKeys}
    \cup {[Http("router", "POST", "POST /groups/:userId") EXCEPT
              !.apiKey = k, !.userId = RestUser, !.groupName = b[1],
              !.pattern = b[2], !.flags = b[3]] :
             k \in ApiKeys,
             b \in {<<"g1", Pat_dev, <<"g">>>>, <<"g1", Pat_open, Undef>>,
                    <<"", Pat_dev, Undef>>, <<"g1", <<>>, Undef>>,
                    <<"g1", Pat_dev, <<"x">>>>}}
    \cup {[Http("router", m[1], m[2]) EXCEPT
              !.apiKey = k, !.userId = RestUser, !.groupName = g] :
             m \in {<<"DELETE", "DELETE /groups/:userId/:groupName">>,
                    <<"POST", "POST /groups/:userId/:groupName/apply">>},
             k \in ApiKeys, g \in GroupNames}

ServerlessRequests ==
    {[Http("channels", m, "/api/channels") EXCEPT !.apiKey = k, !.pattern = pattern] :
        m \in {"OPTIONS", "GET", "POST", "PUT"}, k \in ApiKeys,
        pattern \in {<<>>, Pat_dev, Pat_open}}
    \cup {[Http("suggestions", m, "/api/suggestions") EXCEPT !.apiKey = k] :
             m \in {"OPTIONS", "GET", "POST"}, k \in ApiKeys}

Txt_search == <<"search">>
Txt_help == <<"help">>

SlashTexts ==
    {<<>>, Txt_help, Txt_search, Txt_search \o <<" ">> \o Pat_dev,
     <<"group", " ">> \o Pat_open, <<"suggestions">>, <<"frobnicate">>}

\* The requests to the serverless slash-command endpoint at time t: signed
\* with the deployment's secret or another one or unsigned, and stamped
\* with a time around t or unstamped.
SlashRequests(t) ==
    {[Http("slash-commands", "POST", "/api/slack/commands") EXCEPT
         !.text = text,
         !.timestamp = [given |-> TRUE, value |-> t + d],
         !.signature = IF signer = "" THEN <<>> ELSE Hmac(signer, t + d, text)] :
        text \in SlashTexts, d \in {0 - MaxSkew - 1, 0 - MaxSkew, 0, MaxSkew + 1},
        signer \in {"", "s1", "s2"}}
    \cup {[Http("slash-commands", m, "/api/slack/commands") EXCEPT
              !.text = text,
              !.signature = IF signer = "" THEN <<>> ELSE Hmac(signer, t, text)] :
             m \in {"POST", "GET", "OPTIONS"}, text \in SlashTexts, signer \in {"", "s1"}}

HttpRequests == RouterRequests \cup ServerlessRequests

\* The response sent by the step just taken.
Response(r, status, message, c) ==
    [op |-> "http", req |-> r, status |-> status, message |-> message, core |-> c]

\* An HTTP request arrives and its handler runs to its return or first await.
HttpRequest(r) ==
    /\ front.pc = "idle" /\ call[1].pc = "idle"
    /\ LET out == CASE r.endpoint = "router" -> router(env, groups, saved, r, now)
                    [] r.endpoint = "channels" -> channelsEndpoint(env, groups, saved, r)
                    [] r.endpoint = "slash-commands" ->
                         slashEndpoint(env, groups, saved, r, now)
                    [] OTHER -> suggestionsEndpoint(env, groups, saved, r)
       IN  /\ groups' = out.groups
           /\ saved' = out.saved
           /\ call' = [call EXCEPT ![1] = out.call]
           /\ IF out.status = 0
              THEN /\ front' = [pc |-> "awaiting", req |-> r]
                   /\ ret' = NoRet
              ELSE /\ front' = IdleFront
                   /\ ret' = Response(r, out.status, out.message, IdleCall)
    /\ UNCHANGED <<env, inflight, upstream, now>>

\* The awaited core call has settled and the handler answers.
HttpRespond ==
    /\ front.pc = "awaiting" /\ call[1].pc = "done"
    /\ ret' = Response(front.req, settledStatus(front.req, call[1]), call[1].error, call[1])
    /\ call' = [call EXCEPT ![1] = IdleCall]
    /\ front' = IdleFront
    /\ UNCHANGED <<env, inflight, upstream, groups, now, saved>>

\* The upstream answers the request of the suspended handler.
HttpReply ==
    /\ front.pc = "awaiting"
    /\ Reply(1)

InitHttp ==
    /\ upstream \in StoreListings
    /\ groups = NoGroups
    /\ now = 0
    /\ call = [p \in Procs |-> IdleCall]
    /\ ret = NoRet
    /\ saved = [u \in Users |-> [g \in StoredNames |-> NoArgs]]
    /\ inflight = {}
    /\ env \in {[ConfiguredEnv EXCEPT !.API_SECRET_KEY = k,
                                       !.SLACK_SIGNING_SECRET = secret] :
                   k \in {"", "k1"}, secret \in {"", "s1"}}
    /\ front = IdleFront

NextHttp ==
    \/ \E r \in HttpRequests \cup SlashRequests(now) : HttpRequest(r)
    \/ HttpReply
    \/ HttpRespond

SpecHttp == InitHttp /\ [][NextHttp]_vars

\* ------------------------------------------------ the slash-command handler
\* SlashCommandHandler of the bot process, on the bot's one service.
\* The string that a sequence of pieces spells.
RECURSIVE Spell(_, _)
Spell(pieces, k) == IF k > Len(pieces) THEN "" ELSE pieces[k] \o Spell(pieces, k + 1)

\* What a command handler has done when it returns or suspends: kind names
\* the respond call it made, or the core call it awaits.
Said(kind, store, sv, message) ==
    [kind |-> kind, groups |-> store, saved |-> sv, call |-> IdleCall, message |-> message]

Awaits(kind, store, sv, c) ==
    [kind |-> kind, groups |-> store, saved |-> sv, call |-> c, message |-> NoError]

handleSearch(store, sv, params) ==
    IF Len(params) = 0
    THEN Said("usage", store, sv, NoError)
    ELSE Awaits("searching", store, sv,
                groupStart([IdleCall EXCEPT !.op = "group"], JoinFrom(params, 1), Undef))

\* handleSave: the name is the first parameter without its quotes, the
\* pattern the other parameters joined by blanks.
handleSave(store, sv, userId, params, t) ==
    LET groupName == Spell(StripQuotes(params[1]), 1)
        pattern == JoinFrom(params, 2)
    IN  IF Len(params) < 2 THEN Said("usage", store, sv, NoError)
        ELSE IF ~NewRegExp(pattern, <<>>).ok
        THEN Said("invalid", store, sv, NewRegExp(pattern, <<>>).message)
        ELSE Said("saved", saveGroup(store, userId, groupName, pattern, Undef, t),
                  [sv EXCEPT ![userId][groupName] =
                      [set |-> TRUE, pattern |-> pattern, flags |-> Undef]],
                  NoError)

handleList(store, sv, userId) == Said("list", getUserGroupsStore(store, userId), sv, NoError)

\* The name handleDelete and handleApply look up: every parameter joined by
\* blanks, without the quotes.
lookupName(params) == Spell(StripQuotes(JoinFrom(params, 1)), 1)

handleDelete(store, sv, userId, params) ==
    LET groupName == lookupName(params)
        out == deleteGroup(store, userId, groupName)
    IN  IF Len(params) = 0 THEN Said("usage", store, sv, NoError)
        ELSE IF out.value
        THEN Said("deleted", out.store, [sv EXCEPT ![userId][groupName] = NoArgs], NoError)
        ELSE Said("notfound", out.store, sv, NoError)

handleApply(store, sv, userId, params) ==
    LET groupName == lookupName(params) IN
    IF Len(params) = 0 THEN Said("usage", store, sv, NoError)
    ELSE Awaits("applying", store, sv,
                applyStart([IdleCall EXCEPT !.op = "apply", !.userId = userId,
                                            !.groupName = groupName,
                                            !.args = sv[userId][groupName]],
                           store, userId, groupName))

\* The switch of handleGroupChannels on the parsed command.
handleGroupChannels(store, sv, userId, cmd, params, t) ==
        CASE cmd \in {<<"search">>, <<"group">>} -> handleSearch(store, sv, params)
          [] cmd = <<"save">> -> handleSave(store, sv, userId, params, t)
          [] cmd = <<"list">> -> handleList(store, sv, userId)
          [] cmd \in {<<"delete">>, <<"remove">>} -> handleDelete(store, sv, userId, params)
          [] cmd \in {<<"apply">>, <<"use">>} -> handleApply(store, sv, userId, params)
          [] cmd \in {<<"suggestions">>, <<"suggest">>} -> Said("suggestions", store, sv, NoError)
          [] OTHER -> Said("help", store, sv, NoError)

\* (variant: the command is taken in without the ack)
received_noAck(userId, text) ==
    [pc |-> "acked", acked |-> FALSE, userId |-> userId, text |-> text]

\* handleGroupChannels up to its first await: ack() has been called.
received(userId, text) ==
    [pc |-> "acked", acked |-> TRUE, userId |-> userId, text |-> text]

\* A respond call of the step just taken.
Responded(f, kind, message, value) ==
    [op |-> "respond", userId |-> f.userId, text |-> f.text, kind |-> kind,
     message |-> message, value |-> value]

\* save "N" P, apply "N" and delete "N" as the help text writes them.
Quoted(name) == <<QuoteMark>> \o name \o <<QuoteMark>>
SaveText(name, pattern) == <<"save", " ">> \o Quoted(name) \o <<" ">> \o pattern
ApplyText(name) == <<"apply", " ">> \o Quoted(name)
DeleteText(name) == <<"delete", " ">> \o Quoted(name)

Name_g1 == <<"g", "1">>
Name_a_b == <<"a", " ", "b">>
QuotedNames == {Name_g1, Name_a_b}

CommandTexts ==
    {<<>>, Txt_help, <<"frobnicate">>, Txt_search, Txt_search \o <<" ">> \o Pat_dev,
     <<"group", " ">> \o Pat_open, <<"save">>, <<"list">>, <<"delete">>, <<"apply">>,
     <<"suggestions">>, <<"suggest">>,
     SaveText(Name_g1, Pat_open), <<"remove", " ", "a">>, <<"use", " ", "a">>}
    \cup {SaveText(n, Pat_dev) : n \in QuotedNames}
    \cup {ApplyText(n) : n \in QuotedNames}
    \cup {DeleteText(n) : n \in QuotedNames}

\* A slash command arrives: the handler calls ack and awaits it.
SlashCommand(userId, text) ==
    /\ front.pc = "idle" /\ call[1].pc = "idle"
    /\ front' = received(userId, text)
    /\ ret' = [op |-> "ack", userId |-> userId, text |-> text]
    /\ UNCHANGED <<env, inflight, upstream, groups, now, call, saved>>

\* The handler goes on after the ack, to its respond call or its core call.
SlashHandle ==
    /\ front.pc = "acked"
    /\ \E parsed \in {parseCommand(front.text)} :
       \E out \in {handleGroupChannels(groups, saved, front.userId,
                                        parsed.command, parsed.params, now)} :
       /\ groups' = out.groups
       /\ saved' = out.saved
       /\ call' = [call EXCEPT ![1] = out.call]
       /\ IF out.kind \in {"searching", "applying"}
          THEN /\ front' = [front EXCEPT !.pc = out.kind]
               /\ ret' = NoRet
          ELSE /\ front' = IdleFront
               /\ ret' = Responded(front, out.kind, out.message, <<>>)
    /\ UNCHANGED <<env, inflight, upstream, now>>

\* The upstream answers the request of the suspended command handler.
SlashReply ==
    /\ front.pc \in {"searching", "applying"}
    /\ Reply(1)

\* The awaited core call has settled: the result is formatted and sent, or
\* the catch sends the error text.
SlashRespond ==
    /\ front.pc \in {"searching", "applying"} /\ call[1].pc = "done"
    /\ ret' = IF call[1].error = NoError
              THEN Responded(front, "result", NoError,
                             formatChannelsForSlack(call[1].result, NoLimit))
              ELSE Responded(front, "error", call[1].error, <<>>)
    /\ call' = [call EXCEPT ![1] = IdleCall]
    /\ front' = IdleFront
    /\ UNCHANGED <<env, inflight, upstream, groups, now, saved>>

NextSlash ==
    \/ \E text \in CommandTexts : SlashCommand(RestUser, text)
    \/ SlashHandle
    \/ SlashReply
    \/ SlashRespond

SpecSlash == Init /\ [][NextSlash]_vars

\* The event loop runs every continuation that is ready, and the upstream
\* request is answered or fails.
FairSlash ==
    SpecSlash /\ WF_vars(SlashHandle) /\ WF_vars(SlashReply) /\ WF_vars(SlashRespond)

\* ------------------------------------------------ the tool-protocol server
\* The tool handlers of the tool-protocol server, on that server's own
\* service. code is "ok" or the McpError code thrown.
ToolArgs(userId, groupName, pattern, flags) ==
    [userId |-> userId, groupName |-> groupName, pattern |-> pattern, flags |-> flags]

Told(code, store, sv, message) ==
    [code |-> code, groups |-> store, saved |-> sv, call |-> IdleCall, message |-> message]

handleSaveChannelGroup(store, sv, args, t) ==
    LET flags == DefaultFlags(args.flags)
        re == NewRegExp(args.pattern, flags)
    IN  IF args.userId = "" \/ args.groupName = "" \/ args.pattern = <<>>
        THEN Told("InvalidParams", store, sv,
                  <<"userId, groupName, and pattern are required">>)
        ELSE IF ~re.ok
        THEN Told(IF includes(re.message, "Invalid regular expression")
                  THEN "InvalidParams" ELSE "InternalError",
                  store, sv, re.message)
        ELSE Told("ok", saveGroup(store, args.userId, args.groupName, args.pattern, flags, t),
                  [sv EXCEPT ![args.userId][args.groupName] =
                      [set |-> TRUE, pattern |-> args.pattern, flags |-> flags]],
                  NoError)

\* handleApplySavedGroup up to its return or its await.
handleApplySavedGroup(store, sv, args) ==
    IF args.userId = "" \/ args.groupName = ""
    THEN Told("InvalidParams", store, sv, <<"userId and groupName are required">>)
    ELSE [code |-> "", groups |-> store, saved |-> sv, message |-> NoError,
          call |-> applyStart([IdleCall EXCEPT !.op = "apply", !.userId = args.userId,
                                               !.groupName = args.groupName,
                                               !.args = sv[args.userId][args.groupName]],
                              store, args.userId, args.groupName)]

ToolCalls ==
    {[tool |-> "save_channel_group", args |-> ToolArgs(RestUser, g, pattern, flags)] :
        g \in {"", "g1"}, pattern \in {<<>>, Pat_dev, Pat_open},
        flags \in {Undef, <<"g">>, <<"x">>}}
    \cup {[tool |-> "apply_saved_group", args |-> ToolArgs(RestUser, g, <<>>, Undef)] :
             g \in {"", "g1", "g2"}}

ToolResult(c, code, message) ==
    [op |-> "mcp", tool |-> c.tool, args |-> c.args, code |-> code, message |-> message]

\* A tool call arrives and its handler runs to its return or first await.
McpCall(c) ==
    /\ front.pc = "idle" /\ call[1].pc = "idle"
    /\ \E out \in {IF c.tool = "save_channel_group"
                   THEN handleSaveChannelGroup(groups, saved, c.args, now)
                   ELSE handleApplySavedGroup(groups, saved, c.args)} :
         /\ groups' = out.groups
         /\ saved' = out.saved
         /\ call' = [call EXCEPT ![1] = out.call]
         /\ IF out.code = ""
            THEN /\ front' = [pc |-> "tool", tool |-> c.tool, args |-> c.args]
                 /\ ret' = NoRet
            ELSE /\ front' = IdleFront
                 /\ ret' = ToolResult(c, out.code, out.message)
    /\ UNCHANGED <<env, inflight, upstream, now>>

\* The upstream answers the request of the suspended tool handler.
McpReply ==
    /\ front.pc = "tool"
    /\ Reply(1)

\* handleApplySavedGroup after its await: the result, or InvalidParams for
\* whatever applySavedGroup threw.
McpRespond ==
    /\ front.pc = "tool" /\ call[1].pc = "done"
    /\ ret' = ToolResult(front, IF call[1].error = NoError THEN "ok" ELSE "InvalidParams",
                         call[1].error)
    /\ call' = [call EXCEPT ![1] = IdleCall]
    /\ front' = IdleFront
    /\ UNCHANGED <<env, inflight, upstream, groups, now, saved>>

\* ------------------------------------------ saves through the front ends
\* The requests of the router that carry the configured key.
KeyedRequests == {r \in RouterRequests : r.apiKey = ConfiguredEnv.API_SECRET_KEY}

InitSave ==
    /\ upstream \in StoreListings
    /\ groups = NoGroups
    /\ now = 0
    /\ call = [p \in Procs |-> IdleCall]
    /\ ret = NoRet
    /\ saved = [u \in Users |-> [g \in StoredNames |-> NoArgs]]
    /\ inflight = {}
    /\ env \in {[ConfiguredEnv EXCEPT !.MAIN = main] : main \in {"bot", "mcp"}}
    /\ front = IdleFront

\* The bot serves slash commands and the router on its one service; the
\* tool-protocol server serves tool calls on its own.
NextSave ==
    \/ env.MAIN = "bot" /\ \E text \in CommandTexts : SlashCommand(RestUser, text)
    \/ env.MAIN = "bot" /\ SlashHandle
    \/ env.MAIN = "bot" /\ SlashReply
    \/ env.MAIN = "bot" /\ SlashRespond
    \/ env.MAIN = "bot" /\ \E r \in KeyedRequests : HttpRequest(r)
    \/ env.MAIN = "bot" /\ HttpReply
    \/ env.MAIN = "bot" /\ HttpRespond
    \/ env.MAIN = "mcp" /\ \E c \in ToolCalls : McpCall(c)
    \/ env.MAIN = "mcp" /\ McpReply
    \/ env.MAIN = "mcp" /\ McpRespond

SpecSave == InitSave /\ [][NextSave]_vars

\* ----------------------------------------------------------------- claims
IsGrouping(c) == c.op \in {"group", "apply"}
Succeeded(c) == c.pc = "done" /\ c.error = NoError
NormaliseAll(listing) == [i \in 1..Len(listing) |-> NormaliseChannel(listing[i])]
Names(channels) == [i \in 1..Len(channels) |-> channels[i].name]
Occurs(x, seq) == \E i \in 1..Len(seq) : seq[i] = x

\* A fresh RegExp matches one of the three searchable fields of ch.
FieldMatches(re, ch) ==
    Matches(re, ch.name) \/ Matches(re, ch.topic) \/ Matches(re, ch.purpose)

\* a[i..] is a subsequence of b[j..].
RECURSIVE SubseqFrom(_, _, _, _)
SubseqFrom(a, b, i, j) ==
    IF i > Len(a) THEN TRUE
    ELSE IF j > Len(b) THEN FALSE
    ELSE IF a[i] = b[j] THEN SubseqFrom(a, b, i + 1, j + 1)
    ELSE SubseqFrom(a, b, i, j + 1)

IsSubseq(a, b) == SubseqFrom(a, b, 1, 1)

WithoutG(flags) == SelectSeq(flags, LAMBDA ch : ch # "g")

\* C1: a successful groupChannelsByRegex returns a fetched channel if and only
\* if the compiled pattern matches its name, its topic or its purpose.
C1_MatchedIffAFieldMatches ==
    \A p \in Procs :
       (call[p].op = "group" /\ Succeeded(call[p])) =>
          \A i \in 1..Len(call[p].fetched) :
             Occurs(call[p].fetched[i], call[p].result.channels)
                <=> FieldMatches(call[p].regex, call[p].fetched[i])

\* C2: the global flag does not change the outcome: the channels returned
\* under any flags are those returned under the same flags without "g".
C2_GlobalFlagIrrelevant ==
    \A p \in Procs :
       (call[p].op = "group" /\ Succeeded(call[p])) =>
          call[p].result.channels =
             FilterChannels(NewRegExp(call[p].pattern, WithoutG(call[p].flags)),
                            call[p].fetched)

\* C3: every MatchResult of groupChannelsByRegex or applySavedGroup has
\* matchedChannels = Len(channels) <= totalChannels, and totalChannels is the
\* number of channels fetched for that call.
C3_CountsAgree ==
    \A p \in Procs :
       (IsGrouping(call[p]) /\ Succeeded(call[p])) =>
          /\ call[p].result.matchedChannels = Len(call[p].result.channels)
          /\ call[p].result.matchedChannels <= call[p].result.totalChannels
          /\ call[p].result.totalChannels = Len(call[p].fetched)

C3_Witness ==
    \E p \in Procs :
       /\ call[p].op = "apply" /\ Succeeded(call[p])
       /\ call[p].result.matchedChannels = 2
       /\ call[p].result.totalChannels = 3

\* C4: the channels of a MatchResult are a subsequence of the fetched
\* channels, each at most once; fetched [dev-team, marketing, dev-ops] with
\* ^dev (flags i) gives exactly [dev-team, dev-ops].
C4_FetchOrderKept ==
    \A p \in Procs :
       (call[p].op = "group" /\ Succeeded(call[p])) =>
          /\ IsSubseq(call[p].result.channels, call[p].fetched)
          /\ \A i, j \in 1..Len(call[p].result.channels) :
                i # j => call[p].result.channels[i].id # call[p].result.channels[j].id
          /\ (/\ call[p].fetched = NormaliseAll(ExampleListing)
              /\ call[p].pattern = Pat_hat_dev
              /\ call[p].flags = <<"i">>)
                => Names(call[p].result.channels) = <<Str_devt, Str_devo>>

C4_Witness ==
    \E p \in Procs :
       /\ call[p].op = "group" /\ Succeeded(call[p])
       /\ call[p].fetched = NormaliseAll(ExampleListing)
       /\ call[p].pattern = Pat_hat_dev
       /\ call[p].flags = <<"i">>
       /\ Names(call[p].result.channels) = <<Str_devt, Str_devo>>

\* C5: getAllChannels returns every channel of the workspace, also those of
\* the second and later upstream pages, and totalChannels counts them all.
C5_AllPagesFetched ==
    \A p \in Procs :
       /\ (call[p].op = "getAll" /\ Succeeded(call[p]))
             => call[p].result.channels = NormaliseAll(upstream)
       /\ (call[p].op = "group" /\ Succeeded(call[p]))
             => call[p].result.totalChannels = Len(upstream)

\* C6: the pattern is compiled before the first upstream request: a call that
\* has issued a request holds a pattern that compiled, and a call whose pattern
\* does not compile has failed without issuing any.
C6_ValidateBeforeFetch ==
    \A p \in Procs :
       call[p].op \in {"group", "list"} =>
          /\ call[p].requests > 0 => NewRegExp(call[p].pattern, call[p].flags).ok
          /\ ~NewRegExp(call[p].pattern, call[p].flags).ok =>
                /\ call[p].pc = "done"
                /\ call[p].error # NoError
                /\ call[p].result = NoResult
                /\ call[p].requests = 0

C6_Witness ==
    \E p \in Procs :
       /\ call[p].op = "group" /\ call[p].pc = "done"
       /\ call[p].pattern = Pat_open
       /\ call[p].error = MsgInvalidPattern
       /\ call[p].requests = 0

\* C7: whenever pattern and flags do not compile, groupChannelsByRegex fails
\* with 'Invalid regex pattern provided', never with the generic failure.
C7_NotCompilingIsInvalidPattern ==
    \A p \in Procs :
       (/\ call[p].op = "group" /\ call[p].pc = "done"
        /\ ~NewRegExp(call[p].pattern, call[p].flags).ok)
          => call[p].error = MsgInvalidPattern

\* C8: when the upstream listing fails, groupChannelsByRegex and
\* applySavedGroup fail with a failure other than InvalidPattern and hand
\* back no MatchResult.
C8_SourceFailureIsDistinct ==
    \A p \in Procs :
       (IsGrouping(call[p]) /\ call[p].pc = "done" /\ call[p].failed) =>
          /\ call[p].error # NoError
          /\ call[p].error # MsgInvalidPattern
          /\ call[p].result = NoResult

C8_Witness ==
    \E p \in Procs :
       /\ call[p].op = "apply" /\ call[p].pc = "done" /\ call[p].failed
       /\ call[p].reply = Rejected
       /\ call[p].error = MsgGroupFailed

\* What groupChannelsByRegex(pattern, flagArg) comes to when its request is
\* answered by reply.
DirectOutcome(pattern, flagArg, reply) ==
    groupResume(groupStart([IdleCall EXCEPT !.op = "group"], pattern, flagArg), reply)

\* C9: applySavedGroup(u, g) after saveGroup(u, g, p, f), with p and f valid,
\* comes to what groupChannelsByRegex(p, f) comes to on the same upstream
\* answer: the same MatchResult, pattern and flags included.
C9_ApplyEqualsDirect ==
    \A p \in Procs :
       (/\ call[p].op = "apply" /\ call[p].pc = "done"
        /\ call[p].args.set
        /\ NewRegExp(call[p].args.pattern, DefaultFlags(call[p].args.flags)).ok) =>
          /\ call[p].result =
                DirectOutcome(call[p].args.pattern, call[p].args.flags, call[p].reply).result
          /\ call[p].error =
                DirectOutcome(call[p].args.pattern, call[p].args.flags, call[p].reply).error

C9_Witness ==
    \E p \in Procs :
       /\ call[p].op = "apply" /\ Succeeded(call[p])
       /\ call[p].args.set
       /\ call[p].result.pattern = Pat_dev
       /\ call[p].result.flags = <<"g">>
       /\ call[p].result.matchedChannels = 2

\* (u, g) is listed by getUserGroups(u).
StoredIn(store, userId, groupName) ==
    \E i \in 1..Len(getUserGroups(store, userId)) :
       getUserGroups(store, userId)[i].name = groupName

\* C10: deleteGroup(u, g) returns true exactly when (u, g) was stored just
\* before; afterwards (u, g) is not stored, so a delete right after a delete
\* of the same pair returns false; a delete returning false changes nothing.
C10_DeleteGroupReturn ==
    [][ret'.op = "deleteGroup" =>
          /\ ret'.value = saved[ret'.userId][ret'.groupName].set
          /\ ret'.value = StoredIn(groups, ret'.userId, ret'.groupName)
          /\ ~StoredIn(groups', ret'.userId, ret'.groupName)
          /\ (ret.op = "deleteGroup" /\ ret.userId = ret'.userId
                 /\ ret.groupName = ret'.groupName) => ret'.value = FALSE
          /\ ret'.value = FALSE => groups' = groups]_vars

C10_Witness ==
    /\ ret.op = "deleteGroup" /\ ret.value = TRUE
    /\ ret.userId = "U1" /\ ret.groupName = "g1"
    /\ StoredIn(groups, "U1", "g2")

\* C11: no user id maps to an empty group container: a user has an entry in
\* the store exactly when at least one group is saved for that user, and an
\* entry always holds at least one group.
C11_NoEmptyContainer ==
    /\ DOMAIN groups \subseteq Users
    /\ \A u \in Users :
          /\ u \in DOMAIN groups <=> \E g \in GroupNames : saved[u][g].set
          /\ u \in DOMAIN groups => Len(groups[u]) > 0

C11_Witness ==
    /\ ret.op = "deleteGroup" /\ ret.value = TRUE
    /\ ret.userId \notin DOMAIN groups
    /\ DOMAIN groups # {}

\* C12: getUserGroups(u) for a user without groups returns the empty list
\* and is read-only: it creates no container and changes no stored group.
C12_GetUserGroupsReadOnly ==
    [][ret'.op = "getUserGroups" =>
          /\ groups' = groups
          /\ (\A g \in GroupNames : ~saved[ret'.userId][g].set) =>
                /\ ret'.value = <<>>
                /\ ret'.userId \notin DOMAIN groups']_vars

C12_Witness ==
    /\ ret.op = "getUserGroups" /\ ret.userId = "U2" /\ ret.value = <<>>
    /\ "U2" \notin DOMAIN groups
    /\ "U1" \in DOMAIN groups

\* C13: applySavedGroup(u, g) with (u, g) not stored fails at once with
\* "Group '...' not found", requests nothing from the upstream and leaves the
\* store as it is; with (u, g) stored it requests the channel listing anew
\* and holds no result before the answer to that request.
C13_ApplyNotFoundOrFreshFetch ==
    [][\A p \in Procs :
          (call[p].pc = "idle" /\ call'[p].op = "apply") =>
             /\ groups' = groups
             /\ IF StoredIn(groups, call'[p].userId, call'[p].groupName)
                THEN /\ call'[p].pc = "awaiting"
                     /\ call'[p].requests = 1
                     /\ call'[p].result = NoResult
                ELSE /\ call'[p].pc = "done"
                     /\ call'[p].error = MsgGroupNotFound
                     /\ call'[p].requests = 0
                     /\ call'[p].result = NoResult]_vars

\* The flags a save stores for the flags argument it was given.
FlagsOrI(flagArg) == IF flagArg = Undef THEN <<"i">> ELSE flagArg

\* The places of the entries named groupName in a list of groups.
PlacesOf(list, groupName) == {i \in 1..Len(list) : list[i].name = groupName}

\* C14: after saveGroup(u, g, p, f) getUserGroups(u) has exactly one entry
\* named g, holding p and f ("i" when f is omitted); the list is one longer
\* when g was new and as long as before when g was already stored.
C14_SaveOverwrites ==
    [][ret'.op = "saveGroup" =>
          LET u == ret'.userId
              g == ret'.groupName
              after == getUserGroups(groups', u)
              before == getUserGroups(groups, u)
          IN  /\ Cardinality(PlacesOf(after, g)) = 1
              /\ \A i \in PlacesOf(after, g) :
                    /\ after[i].pattern = saved'[u][g].pattern
                    /\ after[i].flags = FlagsOrI(saved'[u][g].flags)
              /\ Len(after) = IF PlacesOf(before, g) # {} THEN Len(before)
                                                          ELSE Len(before) + 1]_vars

C14_Witness ==
    /\ ret.op = "saveGroup" /\ ret.userId = "U1" /\ ret.groupName = "g1"
    /\ Len(getUserGroups(groups, "U1")) = 2
    /\ getUserGroups(groups, "U1")[1].name = "g1"
    /\ getUserGroups(groups, "U1")[1].createdAt = 1
    /\ getUserGroups(groups, "U1")[1].flags = <<"i">>
    /\ getUserGroups(groups, "U1")[2].createdAt = 0

\* C15: while (u, g) stays stored, the createdAt that getUserGroups(u) reports
\* for g does not change, whatever is done, a save of the same name included.
C15_CreatedAtImmutable ==
    [][\A u \in Users, g \in GroupNames :
          (StoredIn(groups, u, g) /\ StoredIn(groups', u, g)) =>
             mapGet(getUserGroups(groups', u), g).createdAt
                = mapGet(getUserGroups(groups, u), g).createdAt]_vars

\* C16: saveGroup(u, g, p, f) with p not compiling under f fails and stores
\* nothing, so every stored group holds a pattern that compiled when saved.
C16_SaveRejectsInvalidPattern ==
    [][ret'.op = "saveGroup" =>
          /\ ~NewRegExp(saved'[ret'.userId][ret'.groupName].pattern,
                        FlagsOrI(saved'[ret'.userId][ret'.groupName].flags)).ok =>
                (groups' = groups /\ ret'.value # TRUE)
          /\ \A u \in DOMAIN groups' : \A i \in 1..Len(groups'[u]) :
                NewRegExp(groups'[u][i].pattern, groups'[u][i].flags).ok]_vars

\* The store calls explored for two users, and the store one of them leaves.
StoreCalls ==
    {[op |-> "saveGroup", userId |-> k[1], groupName |-> k[2],
      pattern |-> a[1], flags |-> a[2]] : k \in StoreKeys, a \in StoreArgs}
    \cup {[op |-> "deleteGroup", userId |-> k[1], groupName |-> k[2],
           pattern |-> <<>>, flags |-> <<>>] : k \in StoreKeys}

StoreAfter(store, c) ==
    IF c.op = "saveGroup"
    THEN saveGroup(store, c.userId, c.groupName, c.pattern, c.flags, now)
    ELSE deleteGroup(store, c.userId, c.groupName).store

\* The store that the store call of the step being taken leaves when it is
\* made on the store given.
TakenOn(store) ==
    IF ret'.op = "saveGroup"
    THEN saveGroup(store, ret'.userId, ret'.groupName,
                   saved'[ret'.userId][ret'.groupName].pattern,
                   saved'[ret'.userId][ret'.groupName].flags, now)
    ELSE deleteGroup(store, ret'.userId, ret'.groupName).store

\* C17: a save, delete or apply for user u leaves the groups of every other
\* user as they were; getUserGroups(u) lists only what u saved, as u saved
\* it; and a store call for u followed by one for another user leaves the
\* store that the two leave in the other order.
C17_UserIsolation ==
    [][/\ ret'.op \in {"saveGroup", "deleteGroup"} =>
             /\ \A u \in Users \ {ret'.userId} :
                   /\ u \in DOMAIN groups' <=> u \in DOMAIN groups
                   /\ getUserGroups(groups', u) = getUserGroups(groups, u)
             /\ groups' = TakenOn(groups)
             /\ \A d \in StoreCalls :
                   d.userId # ret'.userId =>
                      StoreAfter(groups', d) = TakenOn(StoreAfter(groups, d))
       /\ (\E p \in Procs : call'[p] # call[p] /\ "apply" \in {call[p].op, call'[p].op}) =>
             groups' = groups
       /\ ret'.op = "getUserGroups" =>
             \A i \in 1..Len(ret'.value) :
                /\ saved[ret'.userId][ret'.value[i].name].set
                /\ ret'.value[i].pattern = saved[ret'.userId][ret'.value[i].name].pattern
                /\ ret'.value[i].flags
                      = FlagsOrI(saved[ret'.userId][ret'.value[i].name].flags)]_vars

C17_Witness ==
    /\ ret.op = "getUserGroups" /\ ret.userId = "U2"
    /\ Len(ret.value) = 1
    /\ ret.value[1].name = "g1" /\ ret.value[1].pattern = Pat_dev
    /\ saved["U1"]["g1"].set /\ saved["U1"]["g1"].pattern = Pat_open
    /\ saved["U1"]["g2"].set

\* C18: save and delete requests on the same (user, name) coming through
\* the front ends of one service are last-writer-wins: after the store call of
\* whichever request ran last the name is stored with exactly that save's
\* pattern and flags, or is absent after a delete; the user's other names are
\* kept as they were, no user is left with an empty container, and a request
\* that makes no store call changes nothing.
C18_LastWriterWins ==
    [][/\ ret'.op = "saveGroup" =>
             \E i \in 1..Len(getUserGroups(groups', ret'.userId)) :
                /\ PlacesOf(getUserGroups(groups', ret'.userId), ret'.groupName) = {i}
                /\ getUserGroups(groups', ret'.userId)[i].pattern
                      = saved'[ret'.userId][ret'.groupName].pattern
                /\ getUserGroups(groups', ret'.userId)[i].flags
                      = FlagsOrI(saved'[ret'.userId][ret'.groupName].flags)
       /\ ret'.op = "deleteGroup" =>
             PlacesOf(getUserGroups(groups', ret'.userId), ret'.groupName) = {}
       /\ ret'.op \in {"saveGroup", "deleteGroup"} =>
             \A g \in GroupNames \ {ret'.groupName} :
                /\ StoredIn(groups', ret'.userId, g) <=> StoredIn(groups, ret'.userId, g)
                /\ StoredIn(groups, ret'.userId, g) =>
                      mapGet(getUserGroups(groups', ret'.userId), g)
                         = mapGet(getUserGroups(groups, ret'.userId), g)
       /\ ret'.op \notin {"saveGroup", "deleteGroup"} => groups' = groups
       /\ \A u \in DOMAIN groups' : Len(groups'[u]) > 0
       /\ \A u \in Users, g \in GroupNames :
             StoredIn(groups', u, g) <=> saved'[u][g].set]_vars

C18_Witness ==
    /\ ret.op = "deleteGroup" /\ ret.value = TRUE
    /\ ret.userId = "U1" /\ ret.groupName = "g1"
    /\ StoredIn(groups, "U1", "g2")
    /\ \E r \in inflight :
          /\ r.op = "save" /\ r.via = "slash"
          /\ r.userId = "U1" /\ r.groupName = "g1"

\* The text occurs in the pieces, piece by piece.
Contains(pieces, text) ==
    \E i \in 0..(Len(pieces) - Len(text)) : SubSeq(pieces, i + 1, i + Len(text)) = text

\* C19: for a result with matchedChannels = 0 the payload has no blocks and
\* its text holds the pattern as given, whatever the limit.
C19_NoMatchPayload ==
    (ret.op = "format" /\ ret.result.matchedChannels = 0) =>
       /\ ret.value.blocks = <<>>
       /\ Contains(ret.value.text, ret.result.pattern)

C19_Witness ==
    /\ ret.op = "format" /\ ret.result.matchedChannels = 0
    /\ ret.result.totalChannels = 2
    /\ ret.result.pattern = Pat_group
    /\ ret.limit = Limit(-1)

\* The places of the truncation notice among the blocks, and the number of
\* channel lines the blocks show.
Notices(blocks) == {i \in 1..Len(blocks) : blocks[i].type = "context"}

Shown(blocks) ==
    Cardinality(UNION {{<<i, j>> : j \in {k \in 1..Len(blocks[i].text) :
                                             blocks[i].text[k] \in {BulletPublic, BulletPrivate}}} :
                       i \in 1..Len(blocks)})

\* C20 as stated: for every result and limit the notice is there exactly when
\* length(channels) > limit, and it reports length(channels) - limit, the
\* number of matched channels that the blocks do not show.
C20_TruncationNotice ==
    ret.op = "format" =>
       LET channels == ret.result.channels
           limit == LimitOr20(ret.limit)
           blocks == ret.value.blocks
       IN  /\ Notices(blocks) # {} <=> Len(channels) > limit
           /\ \A i \in Notices(blocks) :
                 /\ blocks[i].text[4] = ToString(Len(channels) - limit)
                 /\ Len(channels) - limit = Len(channels) - Shown(blocks)

\* C20, for a limit that is a count (0, 1, 2, ..., or omitted and so 20): the
\* notice is there exactly when length(channels) > limit, it comes once and
\* last, and it reports length(channels) - limit, the number of matched
\* channels that the blocks do not show.
C20_TruncationNoticeForCounts ==
    (ret.op = "format" /\ LimitOr20(ret.limit) >= 0) =>
       LET channels == ret.result.channels
           limit == LimitOr20(ret.limit)
           blocks == ret.value.blocks
       IN  /\ Notices(blocks) # {} <=> Len(channels) > limit
           /\ Notices(blocks) \subseteq {Len(blocks)}
           /\ \A i \in Notices(blocks) :
                 /\ blocks[i].text[2] = ToString(limit)
                 /\ blocks[i].text[4] = ToString(Len(channels) - limit)
                 /\ Len(channels) - limit = Len(channels) - Shown(blocks)
           /\ Notices(blocks) = {} => Shown(blocks) = Len(channels)

C20_Witness ==
    /\ ret.op = "format" /\ ret.limit = Limit(1)
    /\ Len(ret.result.channels) = 3
    /\ Notices(ret.value.blocks) = {4}
    /\ ret.value.blocks[4].text[4] = "2"
    /\ Shown(ret.value.blocks) = 1

\* The pieces of a section after its heading, split at the line breaks.
LinesOf(block) ==
    LET t == block.text
        breaks == {k \in 4..Len(t) : t[k] = "\n"}
        break(i) == CHOOSE k \in breaks : Cardinality({j \in breaks : j < k}) = i - 1
        from(i) == IF i = 1 THEN 4 ELSE break(i - 1) + 1
        to(i) == IF i = Cardinality(breaks) + 1 THEN Len(t) ELSE break(i) - 1
    IN  [i \in 1..(Cardinality(breaks) + 1) |-> SubSeq(t, from(i), to(i))]

\* The places of the sections with the heading given.
Sections(blocks, heading) ==
    {i \in 1..Len(blocks) : blocks[i].type = "section" /\ blocks[i].text[1] = heading}

\* The blocks show the public channels pub and the private channels priv, in
\* that order: a section for each list that is not empty, headed by its
\* length, one line per channel.
ShowsPartition(blocks, pub, priv) ==
    /\ Cardinality(Sections(blocks, "*Public Channels (")) = IF Len(pub) > 0 THEN 1 ELSE 0
    /\ Cardinality(Sections(blocks, "*Private Channels (")) = IF Len(priv) > 0 THEN 1 ELSE 0
    /\ \A i \in Sections(blocks, "*Public Channels (") :
          /\ blocks[i].text[2] = ToString(Len(pub))
          /\ LinesOf(blocks[i]) = [k \in 1..Len(pub) |-> PublicLine(pub[k])]
    /\ \A i \in Sections(blocks, "*Private Channels (") :
          /\ blocks[i].text[2] = ToString(Len(priv))
          /\ LinesOf(blocks[i]) = [k \in 1..Len(priv) |-> PrivateLine(priv[k])]
    /\ \A i \in Sections(blocks, "*Public Channels (") :
          \A j \in Sections(blocks, "*Private Channels (") : i < j

\* C21 as stated: for every result with matches and every limit, the blocks
\* show the first min(limit, length(channels)) channels, the public ones in
\* one section and the private ones in another, each in the order of the
\* result and only when not empty, and the two counts add up to
\* min(limit, length(channels)).
C21_PartitionShown ==
    (ret.op = "format" /\ ret.result.matchedChannels > 0) =>
       LET channels == ret.result.channels
           n == Min(LimitOr20(ret.limit), Len(channels))
           first == SubSeq(channels, 1, n)
           pub == SelectSeq(first, LAMBDA ch : ~ch.is_private)
           priv == SelectSeq(first, LAMBDA ch : ch.is_private)
       IN  /\ ShowsPartition(ret.value.blocks, pub, priv)
           /\ Len(pub) + Len(priv) = n
           /\ Shown(ret.value.blocks) = n

\* C21, for a limit that is a count (0, 1, 2, ..., or omitted and so 20).
C21_PartitionShownForCounts ==
    (ret.op = "format" /\ ret.result.matchedChannels > 0
        /\ LimitOr20(ret.limit) >= 0) =>
       LET channels == ret.result.channels
           n == Min(LimitOr20(ret.limit), Len(channels))
           first == SubSeq(channels, 1, n)
           pub == SelectSeq(first, LAMBDA ch : ~ch.is_private)
           priv == SelectSeq(first, LAMBDA ch : ch.is_private)
       IN  /\ ShowsPartition(ret.value.blocks, pub, priv)
           /\ Len(pub) + Len(priv) = n
           /\ Shown(ret.value.blocks) = n

C21_Witness ==
    /\ ret.op = "format" /\ ret.limit = NoLimit
    /\ Len(ret.result.channels) = DefaultLimit + 1
    /\ Sections(ret.value.blocks, "*Public Channels (") = {3}
    /\ Sections(ret.value.blocks, "*Private Channels (") = {4}
    /\ ret.value.blocks[3].text[2] = "10"
    /\ ret.value.blocks[4].text[2] = "10"

\* The step takes in an HTTP request: its handler answers or suspends.
Arrived == front.pc = "idle" /\ (ret'.op = "http" \/ front'.pc = "awaiting")
ArrivedReq == IF front'.pc = "awaiting" THEN front'.req ELSE ret'.req

\* The routes the claim calls key-protected.
KeyProtected(r) == r.endpoint \in {"router", "channels", "suggestions"}

\* The request carries no API key, or one that is not the configured key
\* (which includes every request when no key is configured).
Unkeyed(r, e) == r.apiKey = "" \/ r.apiKey # e.API_SECRET_KEY

UnkeyedStatus(r, e) ==
    IF r.method = "OPTIONS" THEN 200
    ELSE IF r.endpoint = "suggestions" /\ r.method # "GET" THEN 405
    ELSE IF r.endpoint = "router" /\ e.API_SECRET_KEY = "" THEN 500
    ELSE 401

C24_MissingGroupIs404 ==
    (/\ ret.op = "http"
     /\ ret.req.route \in {"POST /groups/:userId/:groupName/apply",
                           "DELETE /groups/:userId/:groupName"}
     /\ ret.message = MsgGroupNotFound)
       => ret.status = 404

\* C25: on POST /channels/group, on the apply route and on the serverless
\* channels POST, a pattern that does not compile is answered 400 and a
\* failed upstream listing is answered with a 500-class status.
C25_PatternAndSourceApart ==
    (/\ ret.op = "http"
     /\ \/ ret.req.route \in {"POST /channels/group",
                              "POST /groups/:userId/:groupName/apply"}
        \/ (ret.req.endpoint = "channels" /\ ret.req.method = "POST"))
       => /\ ret.core.error = MsgInvalidPattern => ret.status = 400
          /\ ret.core.failed => ret.status \in {500, 502}

\* The request's signature and timestamp pass verifySlackSignature at time t.
Verified(r, e, t) ==
    /\ r.signature # <<>>
    /\ r.timestamp.given
    /\ e.SLACK_SIGNING_SECRET # ""
    /\ Abs(t - r.timestamp.value) <= MaxSkew
    /\ r.signature = Hmac(e.SLACK_SIGNING_SECRET, r.timestamp.value, r.text)

\* C23: the serverless slash-command endpoint starts a core call (and so a
\* channel fetch) only for a request whose signature was verified against
\* the signing secret with a timestamp within 300 seconds of now.
C23_OnlyVerifiedProcessed ==
    [][(/\ Arrived
        /\ ArrivedReq.endpoint = "slash-commands"
        /\ ~Verified(ArrivedReq, env, now))
          => call'[1].pc = "idle"]_vars

\* C27: after save "N" P has succeeded for a quoted name N and a pattern P,
\* apply "N" and delete "N" of the same user find the group just saved:
\* apply runs the pattern P, and delete deletes the group.
C27_NameRoundTrip ==
    [][\A n \in QuotedNames :
         (/\ front.pc = "acked"
          /\ front.text = SaveText(n, Pat_dev)
          /\ ret'.op = "respond"
          /\ ret'.kind = "saved")
            => LET u == front.userId
                   applied == handleApply(groups', saved', u,
                                          parseCommand(ApplyText(n)).params)
                   deleted == handleDelete(groups', saved', u,
                                           parseCommand(DeleteText(n)).params)
               IN  /\ applied.call.error # MsgGroupNotFound
                   /\ applied.call.pattern = Pat_dev
                   /\ deleted.kind = "deleted"]_vars

\* C30: a slash command is acknowledged before any core operation, store
\* call or respond call made for it; an unknown command word or an empty
\* text is answered with the help; a failure of the awaited core call is
\* answered with its error text; and every command taken in is eventually
\* answered by a respond call.
C30_AckedThenAnswered ==
    /\ [][/\ (ret'.op = "respond" \/ call' # call \/ groups' # groups)
               => (front.pc # "idle" /\ front.acked)
          /\ (ret'.op = "respond" /\ front.pc = "acked"
               /\ front.text \in {<<>>, <<"frobnicate">>})
               => ret'.kind = "help"
          /\ (ret'.op = "respond" /\ front.pc \in {"searching", "applying"}
               /\ call[1].error # NoError)
               => (ret'.kind = "error" /\ ret'.message = call[1].error)]_vars
    /\ \A text \in CommandTexts :
          (front.pc = "acked" /\ front.text = text)
             ~> (ret.op = "respond" /\ ret.text = text)

\* An apply of a saved group has been answered with the error text of a
\* failed upstream listing.
C30_Witness ==
    /\ ret.op = "respond"
    /\ ret.text = ApplyText(Name_g1)
    /\ ret.kind = "error"
    /\ ret.message = MsgGroupFailed

\* The step is a save request that its front end turns down.
SaveRejected ==
    \/ /\ ret'.op = "respond" /\ ret'.kind \in {"usage", "invalid"}
       /\ parseCommand(ret'.text).command = <<"save">>
    \/ /\ ret'.op = "http" /\ ret'.req.route = "POST /groups/:userId"
       /\ ret'.status # 200
    \/ /\ ret'.op = "mcp" /\ ret'.tool = "save_channel_group"
       /\ ret'.code # "ok"

\* C26: whatever save requests the front ends of a process have served,
\* every group of the store holds a pattern that compiles under its stored
\* flags; a save request turned down leaves the store as it was; and an
\* apply never fails with InvalidPattern.
C26_FrontEndSavesCompile ==
    [][/\ \A u \in DOMAIN groups' : \A i \in 1..Len(groups'[u]) :
             NewRegExp(groups'[u][i].pattern, groups'[u][i].flags).ok
       /\ SaveRejected => groups' = groups
       /\ (call'[1].op = "apply" /\ call'[1].pc = "done")
             => call'[1].error # MsgInvalidPattern]_vars

\* The router has turned down a save of a pattern that does not compile
\* while the store holds a group.
C26_Witness ==
    /\ ret.op = "http"
    /\ ret.req.route = "POST /groups/:userId"
    /\ ret.req.pattern = Pat_open
    /\ ret.status = 400
    /\ groups # NoGroups

\* The channels of the listing whose name the RegExp matches, as {id, name},
\* in listing order.
NameMatches(re, listing) ==
    LET hits == SelectSeq(listing, LAMBDA ch : Matches(re, ch.name)) IN
    [i \in 1..Len(hits) |-> [id |-> hits[i].id, name |-> hits[i].name]]

\* The number of pages the upstream cuts the listing into.
NumPages(listing) ==
    IF Len(listing) = 0 THEN 1 ELSE (Len(listing) + PageSize - 1) \div PageSize

\* C28: a listChannelsMatching call that awaits the upstream comes to an end;
\* when every page was received it has asked for each page once and returns
\* the channels whose name matches, in page order then in-page order; when
\* a page request fails it throws, returns no matches, and has asked for no
\* page after the failing one.
C28_ListTerminates ==
    /\ [](\A p \in Procs :
            (call[p].op = "list" /\ call[p].pc = "done" /\ call[p].regex.ok)
              => IF call[p].failed
                 THEN /\ call[p].error # NoError
                      /\ call[p].result = NoResult
                      /\ call[p].requests <= NumPages(upstream)
                      /\ Len(call[p].fetched) = (call[p].requests - 1) * PageSize
                 ELSE /\ call[p].error = NoError
                      /\ call[p].result = [matches |-> NameMatches(call[p].regex, upstream)]
                      /\ call[p].requests = NumPages(upstream))
    /\ \A p \in Procs :
          (call[p].op = "list" /\ call[p].pc = "awaiting") ~> (call[p].pc = "done")

\* A listing of two pages has been listed to its end with a match on the
\* second page.
C28_Witness ==
    /\ call[1].op = "list" /\ call[1].pc = "done" /\ ~call[1].failed
    /\ call[1].requests = 2
    /\ Len(call[1].result.matches) > 0
    /\ call[1].result.matches[Len(call[1].result.matches)].id = upstream[Len(upstream)].id

\* C29: an applySavedGroup that awaits the upstream ends as the pattern and
\* flags stored when it was called decide, whatever was done to the group
\* meanwhile: not with "Group not found", on success with the MatchResult
\* of that pattern and those flags on the answer received, and without
\* changing the store.
C29_ApplyUsesConfigReadAtCall ==
    [][\A p \in Procs :
          (call[p].op = "apply" /\ call[p].pc = "awaiting" /\ call'[p].pc = "done") =>
             /\ call'[p].error # MsgGroupNotFound
             /\ call'[p].error = NoError =>
                   call'[p].result =
                      DirectOutcome(call[p].args.pattern, call[p].args.flags,
                                    call'[p].reply).result
             /\ call'[p].error = NoError =>
                   /\ call'[p].result.pattern = call[p].args.pattern
                   /\ call'[p].result.flags = FlagsOrI(call[p].args.flags)
             /\ groups' = groups]_vars

\* An apply has succeeded with the pattern read at its call although the
\* group was deleted while it awaited the upstream.
C29_Witness ==
    /\ call[1].op = "apply" /\ Succeeded(call[1])
    /\ call[1].result.pattern = Pat_dev
    /\ call[1].result.matchedChannels > 0
    /\ ~StoredIn(groups, call[1].userId, call[1].groupName)

====
